---------------------------- MODULE Spec2Model ----------------------------
(***************************************************************************)
(* A model of the Dynamo-style key-value store of this repository:         *)
(* vector clocks (backend/vector_clock.go), the consistent-hash ring, the  *)
(* startup configuration (backend/config.go, backend/main.go) and the      *)
(* replication coordinator with hinted handoff and anti-entropy            *)
(* (backend/node.go, backend/main.go).                                     *)
(*                                                                         *)
(* The module holds several specifications over one set of variables; a    *)
(* specification leaves the variables of the other subsystems unchanged.   *)
(*   SpecVC    the pure vector-clock functions on drawn inputs             *)
(*   SpecRing  AddNode / RemoveNode / GetNode on one ring                  *)
(*   SpecCfg   the startup path of main()                                  *)
(*   Spec      client PUTs and GETs on a cluster whose nodes fail          *)
(*   SpecAE    client PUTs and anti-entropy on a cluster without failures  *)
(*   SpecHints client PUTs and hinted handoff                              *)
(*   SpecHandoff   SpecHints under the scheduling of the hint worker       *)
(*   SpecHintList  the hint lists of one node                              *)
(*   SpecGossip    the member list of one node's gossip service            *)
(***************************************************************************)
EXTENDS Integers, Sequences, FiniteSets, TLC

VARIABLES
    \* ---- SpecVC: three drawn clocks and the outcome of comparing them (a set
    \* that is empty until the comparison has run)
    vcA, vcB, vcC, vcRes,
    \* ---- SpecRing: ConsistentHashRing fields and the last GetNode call
    nodes, virtualNodes, nodeMap, lookup,
    \* ---- SpecCfg: config file content, -N/-R/-W flags, config in use, position
    cfgFile, flags, config, pc,
    \* ---- the cluster (Spec, SpecAE, SpecHints)
    primary,    \* key -> the node Ring.GetNode returns for it
    store,      \* node -> key -> storedValue held by the node's Storage
    Hints,      \* coordinator -> target -> list of HintedWrite (Node.Hints)
    up,         \* the nodes whose process runs
    view,       \* node -> the nodes its gossip service reports as alive
    pending,    \* coordinator -> target -> pendingHints of a running processHints
    fr,         \* coordinator -> target -> hintsCopy of a running forceReconnectHints
    ae,         \* node -> a running performAntiEntropy (the peers left to sync)
    lastOp,     \* the last client request and what it answered
    acked,      \* the client PUTs answered with success, with their stamped clocks
    nPuts,      \* number of client PUTs issued
    nFaults,    \* number of crashes so far
    nSuspicions, \* number of times a running node was taken for silent
    aeDone,     \* nodes that completed an anti-entropy cycle since the last request
    lostHints,  \* hints removed from a buffer though never delivered nor evicted
    handed,     \* <<target, value>> of every hint a target stored on delivery
    evicted,    \* <<target, value>> of every hint storeHint evicted from a full list
    \* ---- SpecGossip: the GossipService of one node
    Self,       \* GossipService.Self: the node's own Member
    Members,    \* GossipService.Members: node id -> Member, for the ids it holds
    gossipOp,   \* the last call made on the service and what it was given or answered
    \* ---- SpecMerkle: the hash of each stored key and the last bucket served
    keyHash,    \* key -> hashKey(key), an unsigned word of HashBits bits
    merkleOp,   \* the last MerkleTreeHandler request and the keys of its tree
    \* ---- SpecRetry: one client request and the attempts it has made
    req,
    \* ---- SpecConc: client PUTs a coordinator has stamped and not yet replicated
    inflight,
    \* ---- SpecGetHint: a coordinator and a substitute holding several keys
    kvStore,    \* node -> key -> stored entry
    kvHints,    \* the coordinator's hint list for the substituted node
    kvWritten,  \* <<key, value, clock>> of every client write
    getOp,      \* the last GET and the key its hint was stored under
    \* ---- SpecDetect: the GossipService of every node, with the passing of time
    fdMembers,  \* node -> its Members: node id -> Status and Heartbeat
    fdAge,      \* node -> node id -> whole seconds since the member's LastSeen
    fdBeat,     \* node -> Self.Heartbeat
    fdStopped,  \* whether the node that can stop has stopped
    fdDone,     \* node -> which of its two loops ran in the current second
    fdPending   \* node -> the targets of its gossip that have not answered

vcVars   == <<vcA, vcB, vcC, vcRes>>
ringVars == <<nodes, virtualNodes, nodeMap, lookup>>
cfgVars  == <<cfgFile, flags, config, pc>>
dataVars == <<primary, store, Hints, pending, fr, lostHints, handed, evicted>>
envVars  == <<up, view, nFaults, nSuspicions>>
opVars   == <<lastOp, acked, nPuts>>
aeVars   == <<ae, aeDone>>
gossipVars == <<Self, Members, gossipOp>>
merkleVars == <<keyHash, merkleOp>>
retryVars  == <<req>>
concVars   == <<inflight>>
kvVars     == <<kvStore, kvHints, kvWritten, getOp>>
fdVars     == <<fdMembers, fdAge, fdBeat, fdStopped, fdDone, fdPending>>
moreVars   == <<concVars, kvVars, fdVars>>
extraVars  == <<merkleVars, retryVars, moreVars>>
clusterVars == <<dataVars, envVars, opVars, aeVars, gossipVars, extraVars>>


(***************************************************************************)
(* Vector clocks.  A clock is the Go map Clock: a function from the node   *)
(* ids that have an entry to their counters.  An entry that is present     *)
(* with count 0 differs from a missing entry, as in the Go code.           *)
(***************************************************************************)
NewVectorClock == [n \in {} |-> 0]

Increment(vc, nodeID) ==
    [n \in DOMAIN vc \cup {nodeID} |->
        IF n = nodeID
        THEN (IF nodeID \in DOMAIN vc THEN vc[nodeID] ELSE 0) + 1
        ELSE vc[n]]

\* The mutant lets the other clock's entry overwrite, whatever its count.
MergeOverwrite(vc, other) ==
    [n \in DOMAIN vc \cup DOMAIN other |->
        IF n \in DOMAIN other THEN other[n] ELSE vc[n]]

Merge(vc, other) ==
    [n \in DOMAIN vc \cup DOMAIN other |->
        IF n \in DOMAIN other /\ (n \notin DOMAIN vc \/ other[n] > vc[n])
        THEN other[n]
        ELSE vc[n]]

\* The mutant drops the second loop (entries of other that vc lacks).
CompareNoMissing(vc, other) ==
    LET vcDominates    == \E n \in DOMAIN vc :
                              IF n \in DOMAIN other THEN vc[n] > other[n] ELSE TRUE
        otherDominates == \E n \in DOMAIN vc :
                              n \in DOMAIN other /\ vc[n] < other[n]
    IN  IF vcDominates /\ ~otherDominates THEN 1
        ELSE IF ~vcDominates /\ otherDominates THEN -1
        ELSE 0

\* VectorClock.Compare: 1 vc dominates, -1 other dominates, 0 equal or concurrent.
Compare(vc, other) ==
    LET vcDominates    == \E n \in DOMAIN vc :
                              IF n \in DOMAIN other THEN vc[n] > other[n] ELSE TRUE
        otherDominates == (\E n \in DOMAIN vc :
                              n \in DOMAIN other /\ vc[n] < other[n])
                          \/ (\E n \in DOMAIN other : n \notin DOMAIN vc)
    IN  IF vcDominates /\ ~otherDominates THEN 1
        ELSE IF ~vcDominates /\ otherDominates THEN -1
        ELSE 0

\* The mutant drops the second loop (entries of b that a lacks).
compareVectorClocksNoMissing(a, b) ==
    LET aGreater == \E n \in DOMAIN a :
                        IF n \in DOMAIN b THEN a[n] > b[n] ELSE TRUE
        bGreater == \E n \in DOMAIN a : n \in DOMAIN b /\ a[n] < b[n]
    IN  IF aGreater /\ bGreater THEN "concurrent"
        ELSE IF bGreater THEN "newer"
        ELSE "older"

\* compareVectorClocks: "newer" b dominates a, "older" a dominates b or the two
\* are identical, "concurrent" neither dominates.
compareVectorClocks(a, b) ==
    LET aGreater == \E n \in DOMAIN a :
                        IF n \in DOMAIN b THEN a[n] > b[n] ELSE TRUE
        bGreater == (\E n \in DOMAIN a : n \in DOMAIN b /\ a[n] < b[n])
                    \/ (\E n \in DOMAIN b : n \notin DOMAIN a)
    IN  IF aGreater /\ bGreater THEN "concurrent"
        ELSE IF bGreater THEN "newer"
        ELSE "older"


(***************************************************************************)
(* SpecVC: Compare and compareVectorClocks applied to three drawn clocks.  *)
(***************************************************************************)
VCNodes  == {"A", "B", "C"}
MaxCount == 1
Clocks   == UNION {[S -> 0..MaxCount] : S \in SUBSET VCNodes}

\* One step applies both comparison functions to every ordered pair needed.
CompareClocks ==
    /\ vcRes = {}
    /\ vcRes' = {[aa |-> Compare(vcA, vcA),
                 ab |-> Compare(vcA, vcB), ba |-> Compare(vcB, vcA),
                 bc |-> Compare(vcB, vcC), ac |-> Compare(vcA, vcC),
                 s_aa |-> compareVectorClocks(vcA, vcA),
                 s_ab |-> compareVectorClocks(vcA, vcB),
                 s_ba |-> compareVectorClocks(vcB, vcA),
                 s_cb |-> compareVectorClocks(vcC, vcB),
                 s_ca |-> compareVectorClocks(vcC, vcA)]}
    /\ UNCHANGED <<vcA, vcB, vcC, ringVars, cfgVars, clusterVars>>

VCIdle == vcA = NewVectorClock /\ vcB = NewVectorClock /\ vcC = NewVectorClock
          /\ vcRes = {}

(***************************************************************************)
(* The consistent-hash ring.  A key is represented by its hash; the hash   *)
(* of the i-th virtual key "<id>-vn-<i>" of a node is hashKey(id, i), an   *)
(* injective placement that interleaves the nodes' tokens on the ring.     *)
(***************************************************************************)
RingIds          == {"A", "B", "C"}
virtualNodeCount == 2
MaxRingLen       == 8
HashMax          == 2 * Cardinality(RingIds) * virtualNodeCount
KeyHashes        == 0..HashMax

idIndex(id) == CASE id = "A" -> 0 [] id = "B" -> 1 [] OTHER -> 2

hashKey(id, i) == 2 * (i * Cardinality(RingIds) + ((idIndex(id) + i) % Cardinality(RingIds))) + 1

RECURSIVE insertSorted(_, _)
insertSorted(s, h) ==
    IF s = <<>> THEN <<h>>
    ELSE IF h < Head(s) THEN <<h>> \o s
    ELSE <<Head(s)>> \o insertSorted(Tail(s), h)

RECURSIVE sortSlice(_)
sortSlice(s) == IF s = <<>> THEN <<>> ELSE insertSorted(sortSlice(Tail(s)), Head(s))

\* The Go map read c.nodeMap[hash]: "" when the hash has no entry.
nodeMapGet(nm, h) == IF h \in DOMAIN nm THEN nm[h] ELSE ""

AddNode(nodeID) ==
    /\ Len(virtualNodes) + virtualNodeCount <= MaxRingLen
    /\ LET toks == [i \in 1..virtualNodeCount |-> hashKey(nodeID, i - 1)]
           tokSet == {toks[i] : i \in 1..virtualNodeCount}
       IN  /\ nodes' = nodes \cup {nodeID}
           /\ virtualNodes' = sortSlice(virtualNodes \o toks)
           /\ nodeMap' = [h \in DOMAIN nodeMap \cup tokSet |->
                              IF h \in tokSet THEN nodeID ELSE nodeMap[h]]
    /\ lookup' = {}
    /\ UNCHANGED <<vcVars, cfgVars, clusterVars>>

\* The loop of RemoveNode: walks virtualNodes in order, reading and deleting
\* from nodeMap as it goes.  Returns <<newVirtualNodes, nodeMap>>.
RECURSIVE removeLoop(_, _, _, _)
removeLoop(vn, nm, acc, nodeID) ==
    IF vn = <<>> THEN <<acc, nm>>
    ELSE IF nodeMapGet(nm, Head(vn)) # nodeID
         THEN removeLoop(Tail(vn), nm, Append(acc, Head(vn)), nodeID)
         ELSE removeLoop(Tail(vn),
                         [h \in DOMAIN nm \ {Head(vn)} |-> nm[h]], acc, nodeID)

RemoveNode(nodeID) ==
    /\ LET r == removeLoop(virtualNodes, nodeMap, <<>>, nodeID)
       IN  /\ virtualNodes' = r[1]
           /\ nodeMap' = r[2]
    /\ nodes' = nodes \ {nodeID}
    /\ lookup' = {}
    /\ UNCHANGED <<vcVars, cfgVars, clusterVars>>

\* sort.Search(n, f): the binary search of the Go standard library.
RECURSIVE sortSearch(_, _, _, _)
sortSearch(vn, hash, i, j) ==
    IF i < j
    THEN LET h == (i + j) \div 2
         IN  IF ~(vn[h + 1] >= hash)
             THEN sortSearch(vn, hash, h + 1, j)
             ELSE sortSearch(vn, hash, i, h)
    ELSE i

ringGetNode(vn, nm, hash) ==
    IF Len(vn) = 0 THEN ""
    ELSE LET found == sortSearch(vn, hash, 0, Len(vn))
             idx   == IF found = Len(vn) THEN 0 ELSE found
         IN  nodeMapGet(nm, vn[idx + 1])

GetNode(hash) ==
    /\ lookup' = {[key |-> hash, node |-> ringGetNode(virtualNodes, nodeMap, hash)]}
    /\ UNCHANGED <<nodes, virtualNodes, nodeMap, vcVars, cfgVars, clusterVars>>

RingIdle == nodes = {} /\ virtualNodes = <<>> /\ nodeMap = [h \in {} |-> ""]
            /\ lookup = {}

(***************************************************************************)
(* Startup: main() loads the configuration, applies the -N/-R/-W flags and *)
(* creates the coordinator.                                                *)
(***************************************************************************)
MaxCfg         == 3
CfgRange       == 0..MaxCfg
GossipMsRange  == {50, 100}
minGossipMs    == 100
defaultN       == 3
defaultR       == 2
defaultW       == 2
defaultGossipMs == 1000

ValidateConfig(cfg) ==
    /\ ~(cfg.R <= 0 \/ cfg.W <= 0)
    /\ ~(cfg.R + cfg.W <= cfg.N)
    /\ ~(cfg.gossipMs < minGossipMs)

\* main(), lines 55-110: LoadConfig (fatal when validation fails) or the
\* command-line fallback with its built-in configuration.
LoadConfig ==
    /\ pc = "start"
    /\ IF cfgFile.present
       THEN IF ValidateConfig(cfgFile)
            THEN /\ config' = [N |-> cfgFile.N, R |-> cfgFile.R, W |-> cfgFile.W,
                               gossipMs |-> cfgFile.gossipMs]
                 /\ pc' = "loaded"
            ELSE config' = config /\ pc' = "fatal"
       ELSE /\ config' = [N |-> defaultN, R |-> defaultR, W |-> defaultW,
                          gossipMs |-> defaultGossipMs]
            /\ pc' = "loaded"
    /\ UNCHANGED <<cfgFile, flags, vcVars, ringVars, clusterVars>>

\* main(), lines 112-121.
ApplyOverrides ==
    /\ pc = "loaded"
    /\ config' = [config EXCEPT
                    !.N = IF flags.N > 0 THEN flags.N ELSE @,
                    !.R = IF flags.R > 0 THEN flags.R ELSE @,
                    !.W = IF flags.W > 0 THEN flags.W ELSE @]
    /\ pc' = "overridden"
    /\ UNCHANGED <<cfgFile, flags, vcVars, ringVars, clusterVars>>

\* The mutant trusts the file validation and checks nothing again.
NewCoordinatorNoCheck ==
    /\ pc = "overridden"
    /\ pc' = "serving"
    /\ UNCHANGED <<cfgFile, flags, config, vcVars, ringVars, clusterVars>>

\* main(), line 147 onward: NewCoordinator is fatal on a bad quorum; otherwise
\* the handlers are registered and the node serves.
NewCoordinator ==
    /\ pc = "overridden"
    /\ IF config.R <= 0 \/ config.W <= 0 \/ config.N <= 0
       THEN pc' = "fatal"
       ELSE IF config.R + config.W <= config.N
            THEN pc' = "fatal"
            ELSE pc' = "serving"
    /\ UNCHANGED <<cfgFile, flags, config, vcVars, ringVars, clusterVars>>

NoConfig == [N |-> 0, R |-> 0, W |-> 0, gossipMs |-> 0]

CfgIdle == /\ cfgFile = [present |-> FALSE, N |-> 0, R |-> 0, W |-> 0, gossipMs |-> 0]
           /\ flags = [N |-> 0, R |-> 0, W |-> 0]
           /\ config = NoConfig /\ pc = "idle"

(***************************************************************************)
(* The cluster.  Every node is a coordinator and a replica.  The ring is   *)
(* built once at startup from the same node list on every node, so GetNode *)
(* is one function of the key, drawn in the initial state.                 *)
(***************************************************************************)
Nodes   == {"A", "B", "C"}
Keys    == {"x"}

\* The coordinator's quorum configuration, one that NewCoordinator accepts:
\* every key has two replicas out of the three nodes, and reads and writes
\* wait for both.
Replication == 2
ReadQuorum  == 2
WriteQuorum == 2

hintStorageLimit == 1
\* SpecHintList runs the hint lists alone, with a limit that lets a list hold
\* several hints, and numbers the stored hints up to MaxStores.
listLimit == 3
MaxStores == 4
MaxPuts   == 2
MaxFaults == 1
MaxSuspicions == 1

\* The Value of an absent entry; the payloads of the client writes are the
\* positive numbers.
nil == 0

\* storedValue{}: the zero value, whose Value is nil.
NoValue == [value |-> nil, vc |-> NewVectorClock, conflicts |-> <<>>]

SeqToSet(s) == {s[i] : i \in 1..Len(s)}

\* The orders in which a Go map of the nodes in S can be iterated.
Orders(S) == {o \in [1..Cardinality(S) -> S] : \A i, j \in 1..Cardinality(S) :
                                                   i # j => o[i] # o[j]}

\* Ring.getAllNodeIDs ranges over a Go map: any order of the node ids.  The
\* callers index it modulo its length from the primary's position, so the
\* orders are drawn with the primary first.
NodeOrders == Orders(Nodes)

getAllNodeIDs(key) == {o \in NodeOrders : o[1] = primary[key]}

isNodeAvailable(c, nodeID) == nodeID = c \/ nodeID \in view[c]

contains(nodeSeq, nodeID) == \E i \in 1..Len(nodeSeq) : nodeSeq[i] = nodeID

\* The inner loop of determineResponsibleNodes: the first candidate, from the
\* position after the preferred ones, that is available and not yet chosen.
RECURSIVE findReplacementN(_, _, _, _, _, _)
findReplacementN(c, allNodes, primaryIndex, j, chosen, replication) ==
    IF j >= Len(allNodes) THEN ""
    ELSE LET candidate == allNodes[((primaryIndex + replication + j) % Len(allNodes)) + 1]
         IN  IF isNodeAvailable(c, candidate) /\ ~contains(chosen, candidate)
             THEN candidate
             ELSE findReplacementN(c, allNodes, primaryIndex, j + 1, chosen, replication)

findReplacement(c, allNodes, primaryIndex, j, chosen) ==
    findReplacementN(c, allNodes, primaryIndex, j, chosen, Replication)

\* The outer loop; returns <<nodes, replacementMap>>, the map as a set of
\* <<original, substitute>> pairs.
RECURSIVE responsibleLoopN(_, _, _, _, _, _, _)
responsibleLoopN(c, allNodes, primaryIndex, i, chosen, repl, replication) ==
    IF ~(i < replication /\ i < Len(allNodes)) THEN <<chosen, repl>>
    ELSE LET nodeID == allNodes[((primaryIndex + i) % Len(allNodes)) + 1]
             cand   == IF ~isNodeAvailable(c, nodeID)
                       THEN findReplacementN(c, allNodes, primaryIndex, 0, chosen,
                                             replication)
                       ELSE ""
         IN  IF cand # ""
             THEN responsibleLoopN(c, allNodes, primaryIndex, i + 1,
                                   Append(chosen, cand), repl \cup {<<nodeID, cand>>},
                                   replication)
             ELSE responsibleLoopN(c, allNodes, primaryIndex, i + 1,
                                   Append(chosen, nodeID), repl, replication)

responsibleLoop(c, allNodes, primaryIndex, i, chosen, repl) ==
    responsibleLoopN(c, allNodes, primaryIndex, i, chosen, repl, Replication)

\* determineResponsibleNodes of a coordinator whose Replication is replication.
determineResponsibleNodesN(c, key, allNodes, replication) ==
    LET primaryIndex == CHOOSE i \in 0..(Len(allNodes) - 1) : allNodes[i + 1] = primary[key]
    IN  responsibleLoopN(c, allNodes, primaryIndex, 0, <<>>, {}, replication)

determineResponsibleNodes(c, key, allNodes) ==
    determineResponsibleNodesN(c, key, allNodes, Replication)

\* Storage.Get's second result.
exists(n, key) == store[n][key].value # nil

\* The mutant keeps the incoming clock on a concurrent write.
localPutKeepClock(existing, value, vc) ==
    IF existing.value # nil
    THEN LET comparison == compareVectorClocks(existing.vc, vc)
         IN  IF comparison = "concurrent"
             THEN [value |-> value,
                   vc |-> vc,
                   conflicts |-> Append(existing.conflicts,
                                        [value |-> existing.value, vc |-> existing.vc])]
             ELSE IF comparison = "older"
             THEN existing
             ELSE [value |-> value, vc |-> vc, conflicts |-> <<>>]
    ELSE [value |-> value, vc |-> vc, conflicts |-> <<>>]

\* The mutant drops the entry when the incoming write is older.
localPutDropOlder(existing, value, vc) ==
    IF existing.value # nil
    THEN LET comparison == compareVectorClocks(existing.vc, vc)
         IN  IF comparison = "concurrent"
             THEN [value |-> value,
                   vc |-> Merge(vc, existing.vc),
                   conflicts |-> Append(existing.conflicts,
                                        [value |-> existing.value, vc |-> existing.vc])]
             ELSE IF comparison = "older"
             THEN NoValue
             ELSE [value |-> value, vc |-> vc, conflicts |-> <<>>]
    ELSE [value |-> value, vc |-> vc, conflicts |-> <<>>]

\* The clock-gated write of localPut applied to the stored entry.
localPut(existing, value, vc) ==
    IF existing.value # nil
    THEN LET comparison == compareVectorClocks(existing.vc, vc)
         IN  IF comparison = "concurrent"
             THEN [value |-> value,
                   vc |-> Merge(vc, existing.vc),
                   conflicts |-> Append(existing.conflicts,
                                        [value |-> existing.value, vc |-> existing.vc])]
             ELSE IF comparison = "older"
             THEN existing
             ELSE [value |-> value, vc |-> vc, conflicts |-> <<>>]
    ELSE [value |-> value, vc |-> vc, conflicts |-> <<>>]

updateLocalVectorClock(c, key) ==
    IF exists(c, key)
    THEN Increment(store[c][key].vc, c)
    ELSE Increment(NewVectorClock, c)

\* storeHint on one target's list that holds at most limit entries: append,
\* after dropping the first entry of a full list.
storeHintAt(list, key, value, vc, limit) ==
    LET hint == [key |-> key, value |-> value, vc |-> vc]
    IN  IF Len(list) >= limit
        THEN Append(Tail(list), hint)
        ELSE Append(list, hint)

storeHint(list, key, value, vc) == storeHintAt(list, key, value, vc, hintStorageLimit)

\* The hints of coordinator c after the storeHint calls for the pairs in todo,
\* each a <<target, key, value, vc>>; the targets of one request are distinct.
storeHints(h, todo) ==
    [t \in Nodes |->
        IF \E e \in todo : e[1] = t
        THEN LET e == CHOOSE e \in todo : e[1] = t
             IN  storeHint(h[t], e[2], e[3], e[4])
        ELSE h[t]]

RECURSIVE firstWithKey(_, _)
firstWithKey(list, key) ==
    IF list = <<>> THEN 0
    ELSE IF Head(list).key = key THEN 1
    ELSE LET r == firstWithKey(Tail(list), key) IN IF r = 0 THEN 0 ELSE r + 1

targetsWithHint(n, key) == {t \in Nodes : firstWithKey(Hints[n][t], key) # 0}

\* localGet: the stored value, else the first hint found for the key, else
\* the zero value.  first is the target the range over Hints visits first
\* among those holding a hint for the key.
localGet(n, key, first) ==
    IF exists(n, key) THEN store[n][key]
    ELSE IF targetsWithHint(n, key) = {} THEN NoValue
    ELSE LET t == IF first \in targetsWithHint(n, key) THEN first
                  ELSE CHOOSE u \in targetsWithHint(n, key) : TRUE
             h == Hints[n][t][firstWithKey(Hints[n][t], key)]
         IN  [value |-> h.value, vc |-> h.vc, conflicts |-> <<>>]

\* A remote call reaches its target when the target's process runs.
reachable(c, n) == n = c \/ n \in up

otherVars == <<vcVars, ringVars, cfgVars, gossipVars, extraVars>>

NoHints == [t \in Nodes |-> <<>>]

\* The mutant merges the clock of the entry SpecWrite's node stores into the
\* incoming one.
forceStoreMerged(value, vc) ==
    [value |-> value, vc |-> Merge(vc, vcA), conflicts |-> <<>>]

\* A write that bypasses the clock comparison (is_hint, force_sync, force_key
\* in InternalPutHandler): the entry is replaced, without siblings.
forceStore(value, vc) == [value |-> value, vc |-> vc, conflicts |-> <<>>]

\* replicateWrite: the entries of nodes whose write returned true, and the
\* storage after the writes.  A remote write succeeds when the target runs;
\* the target applies localPut and answers 200 whatever localPut decided.
successNodesOf(c, nodeSeq) == SelectSeq(nodeSeq, LAMBDA n : reachable(c, n))

replicateWrite(c, nodeSeq, key, value, vc) ==
    [n \in Nodes |->
        IF contains(nodeSeq, n) /\ reachable(c, n)
        THEN [store[n] EXCEPT ![key] = localPut(store[n][key], value, vc)]
        ELSE store[n]]

\* Put's test of the acknowledgements against W.
writeQuorumFailed(successNodes) == successNodes < WriteQuorum

\* The mutant addresses the hint to the substitute instead of the original.
processSloppyReplacementsToSubstitute(c, successNodes, replacements, key, value, vc) ==
    storeHints(Hints[c], {<<r[2], key, value, vc>> : r \in
                             {q \in replacements : contains(successNodes, q[2])}})

\* processSloppyReplacements: one hint per substituted node whose substitute
\* acknowledged.
processSloppyReplacements(c, successNodes, replacements, key, value, vc) ==
    storeHints(Hints[c], {<<r[1], key, value, vc>> : r \in
                             {q \in replacements : contains(successNodes, q[2])}})

\* The <<target, value>> pairs of the hints a coordinator holds.
hintValues(h) == UNION {{<<t, h[t][i].value>> : i \in 1..Len(h[t])} : t \in Nodes}

\* The payload of the next client write: every write carries its own.
newValue == nPuts + 1

\* Coordinator.Put after the clock is stamped: the replica list, the writes,
\* the quorum test and the hints.
putStamped(c, key, value, allNodes, vc) ==
    /\ c \in up
    /\ allNodes \in getAllNodeIDs(key)
    /\ \E resp \in {determineResponsibleNodes(c, key, allNodes)} :
         \E successNodes \in {successNodesOf(c, resp[1])} :
           LET ok == ~writeQuorumFailed(Len(successNodes))
           IN  /\ store' = replicateWrite(c, resp[1], key, value, vc)
               /\ Hints' = IF ok
                           THEN [Hints EXCEPT ![c] = processSloppyReplacements(c,
                                                       successNodes, resp[2], key, value, vc)]
                           ELSE Hints
               /\ lastOp' = [type |-> "put", coord |-> c, key |-> key,
                             value |-> value, vc |-> vc,
                             nodes |-> resp[1], replacements |-> resp[2],
                             replicas |-> Cardinality({n \in SeqToSet(resp[1]) :
                                                         n = c \/ n \in up}),
                             status |-> IF ok THEN 201 ELSE 500]
               /\ acked' = IF ok
                           THEN acked \cup {[coord |-> c, key |-> key, value |-> value,
                                             vc |-> vc, nodes |-> SeqToSet(successNodes)]}
                           ELSE acked
    /\ evicted' = evicted \cup (hintValues(Hints[c]) \ hintValues(Hints'[c]))
    /\ aeDone' = {}
    /\ ae' = [n \in Nodes |-> [ae[n] EXCEPT !.fresh = FALSE]]
    /\ UNCHANGED <<primary, pending, fr, lostHints, handed, envVars>>

\* Coordinator.Put behind PutHandler, for the first maxPuts client writes, when
\* no other request of the coordinator runs between its steps.
PutAt(c, key, value, allNodes, maxPuts) ==
    /\ nPuts < maxPuts
    /\ putStamped(c, key, value, allNodes, updateLocalVectorClock(c, key))
    /\ nPuts' = nPuts + 1
    /\ UNCHANGED otherVars

Put(c, key, value, allNodes) == PutAt(c, key, value, allNodes, MaxPuts)

\* parseStoredValue on the body InternalGetHandler answers with: the siblings
\* are not read back.  The handler fails on a key it does not hold.
parseStoredValue(sv) ==
    IF sv.value = nil THEN NoValue
    ELSE [value |-> sv.value, vc |-> sv.vc, conflicts |-> <<>>]

retrieveValue(c, nodeID, key, first) ==
    IF nodeID = c THEN localGet(c, key, first[c])
    ELSE IF nodeID \in up THEN parseStoredValue(localGet(nodeID, key, first[nodeID]))
    ELSE NoValue

gatherResponses(c, nodeSeq, key, first) ==
    LET all == [n \in SeqToSet(nodeSeq) |-> retrieveValue(c, n, key, first)]
    IN  [n \in {m \in SeqToSet(nodeSeq) : all[m].value # nil} |-> all[n]]

\* The mutant keeps the clock of the first value instead of merging.
mergeConflictsKeepClock(a, b) ==
    [value |-> a.value, vc |-> a.vc,
     conflicts |-> Append(a.conflicts, [value |-> b.value, vc |-> b.vc])]

mergeConflicts(a, b) ==
    [value |-> a.value, vc |-> Merge(a.vc, b.vc),
     conflicts |-> Append(a.conflicts, [value |-> b.value, vc |-> b.vc])]

\* resolveConflicts over the responses in the order the map range yields them;
\* returns <<current, conflictCount>>.
RECURSIVE resolveLoop(_, _, _, _, _)
resolveLoop(responses, order, i, current, conflictCount) ==
    IF i > Len(order) THEN <<current, conflictCount>>
    ELSE LET sv == responses[order[i]]
         IN  IF current.value = nil
             THEN resolveLoop(responses, order, i + 1, sv, conflictCount)
             ELSE LET comparison == compareVectorClocks(current.vc, sv.vc)
                  IN  IF comparison = "concurrent"
                      THEN resolveLoop(responses, order, i + 1,
                                       mergeConflicts(current, sv), conflictCount + 1)
                      ELSE IF comparison = "newer"
                      THEN resolveLoop(responses, order, i + 1, sv, conflictCount)
                      ELSE resolveLoop(responses, order, i + 1, current, conflictCount)

resolveConflicts(responses, order) == resolveLoop(responses, order, 1, NoValue, 0)

formatResult(value, conflicts) ==
    [value |-> value.value, vc |-> value.vc,
     conflicts |-> IF conflicts > 0
                   THEN [i \in 1..Len(value.conflicts) |-> value.conflicts[i].value]
                   ELSE <<>>]

\* performReadRepairs: RepairHandler on every listed node but the coordinator
\* stores the reconciled value unconditionally.
performReadRepairs(c, nodeSeq, key, latest) ==
    [n \in Nodes |->
        IF contains(nodeSeq, n) /\ n # c /\ n \in up
        THEN [store[n] EXCEPT ![key] = latest]
        ELSE store[n]]

\* handleSloppyReplacements: a hint per substituted node whose substitute
\* answered, under the key of a local entry holding the same value.
handleSloppyReplacements(c, replacements, responses) ==
    storeHints(Hints[c],
        UNION {{<<r[1], k, responses[r[2]].value, responses[r[2]].vc>> :
                  k \in {j \in Keys : /\ exists(c, j)
                                      /\ store[c][j].value = responses[r[2]].value}} :
               r \in {q \in replacements : q[2] \in DOMAIN responses}})

\* The choices of the first hint-holding target the range in localGet visits,
\* one per node.
hintFirstChoices(key) ==
    IF \A n \in Nodes : targetsWithHint(n, key) = {}
    THEN {[n \in Nodes |-> n]}
    ELSE {f \in [Nodes -> Nodes] : \A n \in Nodes :
            f[n] \in (IF targetsWithHint(n, key) = {} THEN {n} ELSE targetsWithHint(n, key))}

\* The state in which the cluster is quiescent: every node runs and sees every
\* other, no hint is buffered or in delivery, and every node has completed an
\* anti-entropy cycle begun after the last client request.
quiescent ==
    /\ up = Nodes
    /\ \A n \in Nodes : view[n] = Nodes
    /\ \A n \in Nodes : Hints[n] = NoHints /\ pending[n] = NoHints
    /\ \A n, m \in Nodes : fr[n][m] = {}
    /\ aeDone = Nodes

\* Get's test of the non-empty responses against R.
readQuorumNone(responses) == responses < 0

readQuorumFailed(responses) == responses < ReadQuorum

\* Coordinator.Get followed by GetHandler's answer, for one list of nodes,
\* one set of responses and one order of resolving them.  Without a read quorum
\* the coordinator's own copy is served, else the error is answered with 500
\* (GetHandler's second local read finds what Get's found).
getOutcome(c, key, resp, responses, first, order) ==
    LET base == [nodes |-> resp[1], replacements |-> resp[2], responses |-> responses]
    IN  IF readQuorumFailed(Cardinality(DOMAIN responses))
        THEN LET localValue == localGet(c, key, first[c])
             IN  IF localValue.value # nil
                 THEN [kind |-> "degraded", status |-> 200, value |-> localValue,
                       result |-> formatResult(localValue, 0)] @@ base
                 ELSE [kind |-> "error", status |-> 500, value |-> localValue,
                       result |-> formatResult(NoValue, 0)] @@ base
        ELSE LET res == resolveConflicts(responses, order)
             IN  [kind |-> "quorum", status |-> IF res[1].value = nil THEN 404 ELSE 200,
                  value |-> res[1], result |-> formatResult(res[1], res[2])] @@ base

\* Every outcome a GET of key at coordinator c can have in the current state:
\* over the orders of the node map, of the hint map and of the response map.
GetOutcomes(c, key) ==
    UNION {UNION {LET resp      == determineResponsibleNodes(c, key, allNodes)
                      responses == gatherResponses(c, resp[1], key, first)
                  IN  {getOutcome(c, key, resp, responses, first, order) :
                          order \in Orders(DOMAIN responses)} :
                  first \in hintFirstChoices(key)} :
           allNodes \in getAllNodeIDs(key)}

\* What the coordinator can answer from its own storage and hints alone.
localResults(c, key) ==
    {formatResult(localGet(c, key, t), 0) : t \in Nodes} \ {formatResult(NoValue, 0)}

\* A client GET: the outcome is answered; a quorum read repairs the listed
\* nodes and buffers hints for the substituted ones.
Get(c, key) ==
    /\ c \in up
    /\ \E out \in GetOutcomes(c, key) :
         /\ store' = IF out.kind = "quorum"
                     THEN performReadRepairs(c, out.nodes, key, out.value)
                     ELSE store
         /\ Hints' = IF out.kind = "quorum" /\ out.replacements # {}
                     THEN [Hints EXCEPT ![c] =
                             handleSloppyReplacements(c, out.replacements, out.responses)]
                     ELSE Hints
         /\ lastOp' = [type |-> "get", kind |-> out.kind, status |-> out.status,
                       responses |-> Cardinality(DOMAIN out.responses),
                       held |-> localResults(c, key) # {},
                       local |-> out.result \in localResults(c, key)]
    /\ aeDone' = {}
    /\ ae' = [n \in Nodes |-> [ae[n] EXCEPT !.fresh = FALSE]]
    /\ UNCHANGED <<primary, pending, fr, lostHints, handed, evicted, envVars, acked, nPuts, otherVars>>

(***************************************************************************)
(* Processes and membership.  The stored entries are on disk and survive a *)
(* crash; the hint buffers and the running workers do not.  A restarted    *)
(* node's gossip service starts with every peer alive.                     *)
(***************************************************************************)
\* held records the keys the node stored when its running cycle began.
AEIdle == [active |-> FALSE, todo |-> {}, fresh |-> FALSE, held |-> {}]

NoReconnect == [m \in Nodes |-> {}]

Crash(n) ==
    /\ n \in up
    /\ nFaults < MaxFaults
    /\ up' = up \ {n}
    /\ nFaults' = nFaults + 1
    /\ Hints' = [Hints EXCEPT ![n] = NoHints]
    /\ pending' = [pending EXCEPT ![n] = NoHints]
    /\ fr' = [fr EXCEPT ![n] = NoReconnect]
    /\ ae' = [ae EXCEPT ![n] = AEIdle]
    /\ UNCHANGED <<primary, store, lostHints, handed, evicted, view, nSuspicions, opVars, aeDone, otherVars>>

Restart(n) ==
    /\ n \notin up
    /\ up' = up \cup {n}
    /\ view' = [view EXCEPT ![n] = Nodes]
    /\ UNCHANGED <<dataVars, nFaults, nSuspicions, opVars, aeVars, otherVars>>

\* checkMemberStatuses on one member: a member not heard of for longer than
\* the timeout stops being alive.  A stopped member is always silent; a running
\* one is silent when its gossip is late.
checkMemberStatuses(c, m) ==
    /\ c \in up
    /\ m # c
    /\ m \in view[c]
    /\ m \in up => nSuspicions < MaxSuspicions
    /\ view' = [view EXCEPT ![c] = view[c] \ {m}]
    /\ nSuspicions' = IF m \in up THEN nSuspicions + 1 ELSE nSuspicions
    /\ UNCHANGED <<dataVars, up, nFaults, opVars, aeVars, otherVars>>

\* updateMember on a heartbeat of a member held down or suspected: the member
\* is alive again and forceReconnectHints starts, copying the member's hints.
updateMember(c, m) ==
    /\ c \in up
    /\ m \in up
    /\ m # c
    /\ m \notin view[c]
    /\ view' = [view EXCEPT ![c] = view[c] \cup {m}]
    /\ fr' = [fr EXCEPT ![c][m] = {Hints[c][m]}]
    /\ UNCHANGED <<primary, store, Hints, pending, lostHints, handed, evicted, up, nFaults, nSuspicions,
                   opVars, aeVars, otherVars>>

\* The mutant copies the hints of every target, available or not.
processHintsCopyAll(c) ==
    /\ c \in up
    /\ pending[c] = NoHints
    /\ Hints[c] # NoHints
    /\ pending' = [pending EXCEPT ![c] = Hints[c]]
    /\ UNCHANGED <<primary, store, Hints, fr, lostHints, handed, evicted, envVars, opVars,
                   aeVars, otherVars>>

(***************************************************************************)
(* Hinted handoff.                                                         *)
(***************************************************************************)
\* processHints, first half: under the lock, copy the hints of the targets
\* that are available.
processHintsCopy(c) ==
    LET pendingHints == [t \in Nodes |-> IF isNodeAvailable(c, t) THEN Hints[c][t] ELSE <<>>]
    IN  /\ c \in up
        /\ pending[c] = NoHints
        /\ pendingHints # NoHints
        /\ pending' = [pending EXCEPT ![c] = pendingHints]
        /\ UNCHANGED <<primary, store, Hints, fr, lostHints, handed, evicted, envVars, opVars,
                       aeVars, otherVars>>

\* The entry of the target after the copied hints were delivered in order,
\* each replacing the entry of its key.
RECURSIVE deliverAll(_, _)
deliverAll(st, hints) ==
    IF hints = <<>> THEN st
    ELSE deliverAll([st EXCEPT ![Head(hints).key] =
                        forceStore(Head(hints).value, Head(hints).vc)], Tail(hints))

hintKeys(hints) == {hints[i].key : i \in 1..Len(hints)}

\* processHints, second half, for one target: deliver the copies, then drop
\* from the live list every hint whose key was delivered.
processHints(c, t) ==
    LET hints           == pending[c][t]
        delivered       == t \in up
        successfulHints == IF delivered THEN hintKeys(hints) ELSE {}
        newHints        == SelectSeq(Hints[c][t], LAMBDA h : h.key \notin successfulHints)
        dropped         == {h \in SeqToSet(Hints[c][t]) : h.key \in successfulHints}
    IN  /\ c \in up
        /\ pending[c][t] # <<>>
        /\ store' = IF delivered
                    THEN [store EXCEPT ![t] = deliverAll(store[t], hints)]
                    ELSE store
        /\ Hints' = [Hints EXCEPT ![c][t] = newHints]
        /\ lostHints' = lostHints \cup
                          {[coord |-> c, target |-> t, hint |-> h] :
                              h \in dropped \ SeqToSet(hints)}
        /\ handed' = IF delivered
                     THEN handed \cup {<<t, hints[i].value>> : i \in 1..Len(hints)}
                     ELSE handed
        /\ pending' = [pending EXCEPT ![c][t] = <<>>]
        /\ UNCHANGED <<primary, fr, evicted, envVars, opVars, aeVars, otherVars>>

\* StoreHintHandler (POST /internal/store-hint): the node buffers the hint the
\* request names, whatever the state of the target.
StoreHintHandler(c, targetNode, key, value, vc) ==
    /\ c \in up
    /\ nPuts < MaxStores
    /\ Hints' = [Hints EXCEPT ![c][targetNode] =
                    storeHintAt(Hints[c][targetNode], key, value, vc, listLimit)]
    /\ evicted' = evicted \cup (hintValues(Hints[c]) \ hintValues(Hints'[c]))
    /\ nPuts' = nPuts + 1
    /\ UNCHANGED <<primary, store, pending, fr, lostHints, handed, envVars, lastOp, acked,
                   aeVars, otherVars>>

\* The removal in forceReconnectHints: the first hint of the key, replaced by
\* the last one of the list.
removeHint(list, key) ==
    LET i == firstWithKey(list, key)
    IN  IF i = 0 THEN list
        ELSE IF Len(list) = 1 THEN <<>>
        ELSE IF i < Len(list)
        THEN SubSeq([list EXCEPT ![i] = list[Len(list)]], 1, Len(list) - 1)
        ELSE SubSeq(list, 1, Len(list) - 1)

\* The delivery loop of forceReconnectHints over the copy; acc holds the live
\* list and the hints removed from it.
RECURSIVE reconnectLoop(_, _)
reconnectLoop(hintsCopy, acc) ==
    IF hintsCopy = <<>> THEN acc
    ELSE LET i == firstWithKey(acc.live, Head(hintsCopy).key)
         IN  reconnectLoop(Tail(hintsCopy),
                 [live    |-> removeHint(acc.live, Head(hintsCopy).key),
                  removed |-> IF i = 0 THEN acc.removed
                              ELSE acc.removed \cup {acc.live[i]}])

\* The scan that ends forceReconnectHints: every local entry whose primary is
\* the node is written to it through the clock-gated put.
RECURSIVE pushPrimaryKeys(_, _, _, _)
pushPrimaryKeys(c, nodeID, st, keys) ==
    IF keys = {} THEN st
    ELSE LET k == CHOOSE k \in keys : TRUE
         IN  pushPrimaryKeys(c, nodeID,
                 IF exists(c, k) /\ primary[k] = nodeID
                 THEN [st EXCEPT ![k] = localPut(st[k], store[c][k].value, store[c][k].vc)]
                 ELSE st,
                 keys \ {k})

forceReconnectHints(c, nodeID) ==
    /\ c \in up
    /\ fr[c][nodeID] # {}
    /\ \E hintsCopy \in fr[c][nodeID] :
         LET delivered == nodeID \in up
             acc       == IF delivered
                          THEN reconnectLoop(hintsCopy,
                                   [live |-> Hints[c][nodeID], removed |-> {}])
                          ELSE [live |-> Hints[c][nodeID], removed |-> {}]
         IN  /\ store' = IF delivered
                         THEN [store EXCEPT ![nodeID] =
                                 pushPrimaryKeys(c, nodeID,
                                     deliverAll(store[nodeID], hintsCopy), Keys)]
                         ELSE store
             /\ Hints' = [Hints EXCEPT ![c][nodeID] = acc.live]
             /\ lostHints' = lostHints \cup
                               {[coord |-> c, target |-> nodeID, hint |-> h] :
                                   h \in acc.removed \ SeqToSet(hintsCopy)}
             /\ handed' = IF delivered
                          THEN handed \cup {<<nodeID, hintsCopy[i].value>> :
                                               i \in 1..Len(hintsCopy)}
                          ELSE handed
    /\ fr' = [fr EXCEPT ![c][nodeID] = {}]
    /\ UNCHANGED <<primary, pending, evicted, envVars, opVars, aeVars, otherVars>>

(***************************************************************************)
(* Anti-entropy.                                                           *)
(***************************************************************************)
\* performAntiEntropy begins: every peer is still to be synced, in the order
\* the range over the node map yields.  A node that completed a cycle since the
\* last client request waits for the next request.
performAntiEntropy(c) ==
    /\ c \in up
    /\ ~ae[c].active
    /\ c \notin aeDone
    /\ ae' = [ae EXCEPT ![c] = [active |-> TRUE, todo |-> Nodes \ {c}, fresh |-> TRUE,
                                held |-> {k \in Keys : exists(c, k)}]]
    /\ UNCHANGED <<dataVars, envVars, opVars, aeDone, otherVars>>

\* The mutant sends only the keys whose primary is the sender.
RECURSIVE syncKeysOfPeer(_, _, _)
syncKeysOfPeer(c, st, keys) ==
    IF keys = {} THEN st
    ELSE LET k == CHOOSE k \in keys : TRUE
         IN  syncKeysOfPeer(c,
                 IF exists(c, k) /\ primary[k] = c
                 THEN [st EXCEPT ![k] = forceStore(store[c][k].value, store[c][k].vc)]
                 ELSE st,
                 keys \ {k})

\* forceSyncKey for every local key: the peer replaces its entry.
RECURSIVE syncKeys(_, _, _)
syncKeys(c, st, keys) ==
    IF keys = {} THEN st
    ELSE LET k == CHOOSE k \in keys : TRUE
         IN  syncKeys(c,
                 IF exists(c, k)
                 THEN [st EXCEPT ![k] = forceStore(store[c][k].value, store[c][k].vc)]
                 ELSE st,
                 keys \ {k})

\* directSyncWithNode for the next peer of the cycle.
directSyncWithNode(c, nodeID) ==
    /\ c \in up
    /\ ae[c].active
    /\ nodeID \in ae[c].todo
    /\ store' = IF nodeID \in up
                THEN [store EXCEPT ![nodeID] = syncKeys(c, store[nodeID], Keys)]
                ELSE store
    /\ ae' = [ae EXCEPT ![c] = IF ae[c].todo = {nodeID}
                               THEN AEIdle
                               ELSE [ae[c] EXCEPT !.todo = ae[c].todo \ {nodeID}]]
    /\ aeDone' = IF ae[c].todo = {nodeID} /\ ae[c].fresh
                 THEN aeDone \cup {c}
                 ELSE aeDone
    /\ UNCHANGED <<primary, Hints, pending, fr, lostHints, handed, evicted, envVars, opVars, otherVars>>

(***************************************************************************)
(* Specifications.  Each one runs one subsystem and holds the others idle. *)
(***************************************************************************)
(***************************************************************************)
(* The gossip service of one node (SpecGossip): the statuses it keeps for  *)
(* its members, under received gossip, failure-detection ticks, outgoing   *)
(* gossip and status queries.  Time is left out: a tick may find any       *)
(* member fresh, late or silent.  In the cluster model above, view[c] is   *)
(* the set of members whose status is alive.                               *)
(***************************************************************************)
StatusAlive     == "alive"
StatusSuspected == "suspected"
StatusDown      == "down"
Statuses        == {StatusAlive, StatusSuspected, StatusDown}

\* The node whose service is modelled, the ids gossip can name (D is a node
\* the member list does not hold at start) and the heartbeats.
gossipSelf   == "A"
GossipIds    == Nodes \cup {"D"}
MaxHeartbeat == 1
Heartbeats   == 0..MaxHeartbeat
\* A received payload carries at most this many member entries.
MaxPayloadMembers == 1

MemberRecords == [NodeID : GossipIds, Status : Statuses, Heartbeat : Heartbeats]

\* Members.Store(id, member).
membersStore(m, id, status, heartbeat) ==
    [n \in DOMAIN m \cup {id} |->
        IF n = id THEN [Status |-> status, Heartbeat |-> heartbeat] ELSE m[n]]

\* NewGossipService: self is alive and is not put in the member list; every
\* other node of the cluster is, alive.
InitGossip ==
    /\ Self = [NodeID |-> gossipSelf, Status |-> StatusAlive, Heartbeat |-> 0]
    /\ Members = [n \in Nodes \ {gossipSelf} |-> [Status |-> StatusAlive, Heartbeat |-> 0]]
    /\ gossipOp = [op |-> "none"]

\* updateMember past the check for self: an unknown member is stored as
\* reported; a known one takes a larger heartbeat, is alive again when that
\* report says alive, and is suspected when the report says down.
updateKnownMember(m, newMember) ==
    IF newMember.NodeID \notin DOMAIN m
    THEN membersStore(m, newMember.NodeID, newMember.Status, newMember.Heartbeat)
    ELSE LET current == m[newMember.NodeID]
             larger  == newMember.Heartbeat > current.Heartbeat
             s1      == IF larger /\ newMember.Status = StatusAlive
                        THEN StatusAlive ELSE current.Status
             s2      == IF newMember.Status = StatusDown /\ s1 # StatusDown
                        THEN StatusSuspected ELSE s1
         IN  membersStore(m, newMember.NodeID, s2,
                          IF larger THEN newMember.Heartbeat ELSE current.Heartbeat)

\* The mutant applies reports about the node itself like any other.
gossipUpdateMemberAny(m, newMember) == updateKnownMember(m, newMember)

\* GossipService.updateMember on the member list m.
gossipUpdateMember(m, newMember) ==
    IF newMember.NodeID = Self.NodeID THEN m
    ELSE updateKnownMember(m, newMember)

RECURSIVE updateMembers(_, _)
updateMembers(m, reports) ==
    IF reports = <<>> THEN m
    ELSE updateMembers(gossipUpdateMember(m, Head(reports)), Tail(reports))

Payloads == UNION {[1..k -> MemberRecords] : k \in 0..MaxPayloadMembers}

\* HandleGossip: the sender is alive, then every member entry of the payload
\* is applied.
HandleGossip(sender, heartbeat, members) ==
    /\ Members' = updateMembers(Members,
                     <<[NodeID |-> sender, Status |-> StatusAlive,
                        Heartbeat |-> heartbeat]>> \o members)
    /\ gossipOp' = [op |-> "HandleGossip", sender |-> sender,
                    named |-> {members[i].NodeID : i \in 1..Len(members)},
                    selfReported |-> {members[i].Status :
                                        i \in {j \in 1..Len(members) :
                                                 members[j].NodeID = Self.NodeID}}]
    /\ UNCHANGED <<Self, vcVars, ringVars, cfgVars, dataVars, envVars, opVars, aeVars,
                   extraVars>>

\* gossipLoop's incrementHeartbeat.
incrementHeartbeat ==
    /\ Self.Heartbeat < MaxHeartbeat
    /\ Self' = [Self EXCEPT !.Heartbeat = @ + 1]
    /\ gossipOp' = [op |-> "incrementHeartbeat"]
    /\ UNCHANGED <<Members, vcVars, ringVars, cfgVars, dataVars, envVars, opVars, aeVars,
                   extraVars>>

\* failureDetectionLoop's checkMemberStatuses: every member but self gets the
\* status its silence calls for.
gossipCheckMemberStatuses ==
    /\ \E found \in [DOMAIN Members -> Statuses] :
         Members' = [n \in DOMAIN Members |->
                        IF n = Self.NodeID THEN Members[n]
                        ELSE [Members[n] EXCEPT !.Status = found[n]]]
    /\ gossipOp' = [op |-> "checkMemberStatuses"]
    /\ UNCHANGED <<Self, vcVars, ringVars, cfgVars, dataVars, envVars, opVars, aeVars,
                   extraVars>>

\* selectGossipTargets: the members other than self that are not down.
selectGossipTargets ==
    {n \in DOMAIN Members : n # Self.NodeID /\ Members[n].Status # StatusDown}

\* sendGossipToNode: a target that answers is alive, one that fails five
\* times is suspected.
sendGossipToNode(target, answered) ==
    /\ target \in selectGossipTargets
    /\ target # Self.NodeID
    /\ Members' = IF answered
                  THEN IF Members[target].Status # StatusAlive
                       THEN membersStore(Members, target, StatusAlive,
                                         Members[target].Heartbeat)
                       ELSE Members
                  ELSE membersStore(Members, target, StatusSuspected,
                                    Members[target].Heartbeat)
    /\ gossipOp' = [op |-> "sendGossipToNode", node |-> target]
    /\ UNCHANGED <<Self, vcVars, ringVars, cfgVars, dataVars, envVars, opVars, aeVars,
                   extraVars>>

\* getNodeStatus: alive for self, the kept status for a known member; an
\* unknown node is stored as suspected.
getNodeStatus(nodeID) ==
    LET status == IF nodeID = Self.NodeID THEN StatusAlive
                  ELSE IF nodeID \in DOMAIN Members THEN Members[nodeID].Status
                  ELSE StatusSuspected
    IN  /\ Members' = IF nodeID # Self.NodeID /\ nodeID \notin DOMAIN Members
                      THEN membersStore(Members, nodeID, StatusSuspected, 0)
                      ELSE Members
        /\ gossipOp' = [op |-> "getNodeStatus", node |-> nodeID, status |-> status]
        /\ UNCHANGED <<Self, vcVars, ringVars, cfgVars, dataVars, envVars, opVars, aeVars,
                   extraVars>>

\* ForceNodeDown: refused for self; any other node is down, known or not.
ForceNodeDown(nodeID) ==
    /\ Members' = IF nodeID = Self.NodeID THEN Members
                  ELSE IF nodeID \in DOMAIN Members
                  THEN membersStore(Members, nodeID, StatusDown, Members[nodeID].Heartbeat)
                  ELSE membersStore(Members, nodeID, StatusDown, 0)
    /\ gossipOp' = [op |-> "ForceNodeDown", node |-> nodeID]
    /\ UNCHANGED <<Self, vcVars, ringVars, cfgVars, dataVars, envVars, opVars, aeVars,
                   extraVars>>

(***************************************************************************)
(* Merkle buckets.  hashKey is the first eight bytes of a SHA-256 digest   *)
(* as an unsigned 64-bit word; the model draws the word of each stored key *)
(* and keeps HashBits bits of it.  int(h) reinterprets the word as a       *)
(* signed one of the same width, and Go's % truncates toward zero, so its  *)
(* result has the sign of the dividend.                                    *)
(***************************************************************************)
HashBits      == 8
merkleBuckets == 100
HashWords     == 0..(2^HashBits - 1)

\* int(x) for an unsigned word x, on a build whose int has the word's width.
toInt(x) == IF x >= 2^(HashBits - 1) THEN x - 2^HashBits ELSE x

\* Go's a % b for b > 0.
goRem(a, b) == IF a >= 0 THEN a % b ELSE 0 - ((0 - a) % b)

\* The test MerkleTreeHandler applies to every stored key.
inBucket(h, bucketNum) == goRem(toInt(h), merkleBuckets) = bucketNum

MerkleIdle == keyHash = [k \in Keys |-> 0] /\ merkleOp = [op |-> "none"]

\* GET /internal/merkle/{bucket}: the tree is built over the stored keys that
\* pass the bucket test.
MerkleTreeHandler(bucketNum) ==
    /\ merkleOp' = [op |-> "merkle", bucket |-> bucketNum,
                    keys |-> {k \in Keys : inBucket(keyHash[k], bucketNum)}]
    /\ UNCHANGED <<keyHash, vcVars, ringVars, cfgVars, dataVars, envVars, opVars, aeVars,
                   gossipVars, retryVars, moreVars>>

(***************************************************************************)
(* Retries.  One client request at a coordinator: the rounds of            *)
(* getResponsibleNodes, then one goroutine per entry of the list, each     *)
(* making its remote attempts, then the answer.  A remote attempt ends     *)
(* with a reply or with the HTTP client's timeout; only a running target   *)
(* can reply.                                                              *)
(***************************************************************************)
maxRetryAttempts == 3
defaultReplication == 3

NoRequest == [pc |-> "none"]
RetryIdle == req = NoRequest

\* The mutant never gives up.
retriesLeftAlways(attempts) == TRUE

\* The loop condition i < maxRetryAttempts after attempts iterations.
retriesLeft(attempts) == attempts < maxRetryAttempts

\* getResponsibleNodes: one more determineResponsibleNodes; the list is kept
\* when it is long enough or when no round is left.
getResponsibleNodes ==
    /\ req.pc = "select"
    /\ LET resp  == determineResponsibleNodesN(req.coord, req.key, req.allNodes,
                                               req.replication)
           round == req.rounds + 1
       IN  req' = IF Len(resp[1]) >= req.replication \/ ~retriesLeft(round)
                  THEN [req EXCEPT !.pc = "replicas", !.rounds = round,
                                   !.nodes = resp[1],
                                   !.attempts = [i \in 1..Len(resp[1]) |-> 0],
                                   !.entry = [i \in 1..Len(resp[1]) |-> "run"]]
                  ELSE [req EXCEPT !.rounds = round]
    /\ UNCHANGED <<vcVars, ringVars, cfgVars, dataVars, envVars, opVars, aeVars,
                   gossipVars, merkleVars, moreVars>>

\* writeToNode or retrieveValue for entry i of the list: the coordinator's
\* own entry is served locally; a remote one costs an attempt, and is over
\* when the target answered with a result or when no attempt is left.
attemptEntry(i, answered) ==
    /\ req.pc = "replicas"
    /\ i \in 1..Len(req.nodes)
    /\ req.entry[i] = "run"
    /\ IF req.nodes[i] = req.coord
       THEN req' = [req EXCEPT !.entry[i] = IF req.kind = "put" \/ answered
                                            THEN "ok" ELSE "failed"]
       ELSE /\ answered => req.nodes[i] \in up
            /\ LET n == req.attempts[i] + 1
               IN  req' = [req EXCEPT !.attempts[i] = n,
                                      !.entry[i] = IF answered THEN "ok"
                                                   ELSE IF retriesLeft(n) THEN "run"
                                                   ELSE "failed"]
    /\ UNCHANGED <<vcVars, ringVars, cfgVars, dataVars, envVars, opVars, aeVars,
                   gossipVars, merkleVars, moreVars>>

\* wg.Wait() is over: Put answers by the write quorum; Get answers by the read
\* quorum and, short of it, by what the coordinator holds itself.
answerRequest(heldLocally) ==
    /\ req.pc = "replicas"
    /\ \A i \in 1..Len(req.nodes) : req.entry[i] # "run"
    /\ LET okCount == Cardinality({i \in 1..Len(req.nodes) : req.entry[i] = "ok"})
       IN  req' = [req EXCEPT !.pc = "done",
                      !.status = IF req.kind = "put"
                                 THEN IF okCount < WriteQuorum THEN 500 ELSE 201
                                 ELSE IF okCount < ReadQuorum /\ ~heldLocally
                                 THEN 500 ELSE 200]
    /\ UNCHANGED <<vcVars, ringVars, cfgVars, dataVars, envVars, opVars, aeVars,
                   gossipVars, merkleVars, moreVars>>

(***************************************************************************)
(* Client PUTs served concurrently.  net/http runs every request in its    *)
(* own goroutine.  Coordinator.Put takes c.mu in updateLocalVectorClock,   *)
(* releases it on return, and takes it again in localPut: another PUT of   *)
(* the coordinator can run between the two critical sections.              *)
(***************************************************************************)
MaxInflight == 2

ConcIdle == inflight = {}

\* PutHandler up to the return of updateLocalVectorClock.
stampPut(c, key, value) ==
    /\ c \in up
    /\ nPuts < MaxPuts
    /\ Cardinality(inflight) < MaxInflight
    /\ inflight' = inflight \cup {[coord |-> c, key |-> key, value |-> value,
                                   vc |-> updateLocalVectorClock(c, key)]}
    /\ nPuts' = nPuts + 1
    /\ UNCHANGED <<dataVars, envVars, lastOp, acked, aeVars, gossipVars,
                   vcVars, ringVars, cfgVars, merkleVars, retryVars, kvVars, fdVars>>

\* The rest of Coordinator.Put for a stamped request, and the answer.
finishPut(p, allNodes) ==
    /\ p \in inflight
    /\ putStamped(p.coord, p.key, p.value, allNodes, p.vc)
    /\ inflight' = inflight \ {p}
    /\ UNCHANGED <<nPuts, gossipVars, vcVars, ringVars, cfgVars, merkleVars, retryVars, kvVars, fdVars>>

(***************************************************************************)
(* GETs served through a substitute by a coordinator that holds several    *)
(* keys.  kvCoord is the primary of both keys, kvOriginal its successor,   *)
(* which does not run, and kvSubstitute the node taken in its place: the   *)
(* replica list of both keys is [kvCoord, kvSubstitute] with the           *)
(* replacement kvOriginal -> kvSubstitute.                                 *)
(***************************************************************************)
kvCoord      == "A"
kvOriginal   == "B"
kvSubstitute == "C"
kvNodes      == {kvCoord, kvSubstitute}

\* The keys in the order BadgerStorage.Iterate visits them (byte order).
KvKeyOrder == <<"k1", "k2">>
KvKeys     == SeqToSet(KvKeyOrder)

\* The payloads: 1 and 2 are scalars; 3 and 4 are the JSON objects
\* {"key": "k1"} and {"key": "k2"}.
KvValues == 1..4
MaxKvPuts == 3

\* valueMap["key"] when the value is an object with a string under "key",
\* "" otherwise.
keyField(v) == IF v = 3 THEN "k1" ELSE IF v = 4 THEN "k2" ELSE ""

KvIdle ==
    /\ kvStore = [n \in kvNodes |-> [k \in KvKeys |-> NoValue]]
    /\ kvHints = <<>>
    /\ kvWritten = {}
    /\ getOp = [op |-> "none"]

\* The Iterate callback of handleSloppyReplacements from the i-th key on: the
\* first local key whose value prints like the response's, "" when none does.
RECURSIVE iterateFind(_, _)
iterateFind(value, i) ==
    IF i > Len(KvKeyOrder) THEN ""
    ELSE IF /\ kvStore[kvCoord][KvKeyOrder[i]].value # nil
            /\ kvStore[kvCoord][KvKeyOrder[i]].value = value
    THEN KvKeyOrder[i]
    ELSE iterateFind(value, i + 1)

\* The key handleSloppyReplacements stores the hint under.
hintKeyOf(sv) ==
    IF keyField(sv.value) # "" THEN keyField(sv.value)
    ELSE iterateFind(sv.value, 1)

\* Coordinator.Put of key at kvCoord while kvOriginal is substituted.
kvPut(key, value) ==
    /\ Cardinality(kvWritten) < MaxKvPuts
    /\ LET vc == IF kvStore[kvCoord][key].value # nil
                 THEN Increment(kvStore[kvCoord][key].vc, kvCoord)
                 ELSE Increment(NewVectorClock, kvCoord)
       IN  /\ kvStore' = [n \in kvNodes |->
                            [kvStore[n] EXCEPT ![key] = localPut(kvStore[n][key], value, vc)]]
           /\ kvHints' = storeHint(kvHints, key, value, vc)
           /\ kvWritten' = kvWritten \cup {<<key, value, vc>>}
    /\ getOp' = [op |-> "put", key |-> key]
    /\ UNCHANGED <<vcVars, ringVars, cfgVars, dataVars, envVars, opVars, aeVars,
                   gossipVars, merkleVars, retryVars, concVars, fdVars>>

\* Coordinator.Get of key at kvCoord while kvOriginal is substituted: both
\* listed nodes answer, the reconciled entry is repaired onto the substitute,
\* and handleSloppyReplacements stores a hint for kvOriginal.
kvGet(key, order) ==
    /\ order \in Orders(kvNodes)
    /\ LET all == [n \in kvNodes |->
                     IF n = kvCoord THEN kvStore[n][key]
                     ELSE parseStoredValue(kvStore[n][key])]
           responses == [n \in {m \in kvNodes : all[m].value # nil} |-> all[n]]
           live == SelectSeq(order, LAMBDA n : n \in DOMAIN responses)
       IN  /\ Cardinality(DOMAIN responses) >= ReadQuorum
           /\ LET result == resolveConflicts(responses, live)[1]
                  sv == responses[kvSubstitute]
                  keyValue == hintKeyOf(sv)
              IN  /\ kvStore' = [kvStore EXCEPT ![kvSubstitute][key] = result]
                  /\ kvHints' = IF keyValue = "" THEN kvHints
                                ELSE storeHint(kvHints, keyValue, sv.value, sv.vc)
                  /\ getOp' = [op |-> "get", key |-> key, hinted |-> keyValue # "",
                               hintKey |-> keyValue, value |-> sv.value, vc |-> sv.vc]
    /\ UNCHANGED <<kvWritten, vcVars, ringVars, cfgVars, dataVars, envVars, opVars,
                   aeVars, gossipVars, merkleVars, retryVars, concVars, fdVars>>

(***************************************************************************)
(* Failure detection with time.  Every node runs gossipLoop (every 500 ms) *)
(* and failureDetectionLoop (every second).  Time is counted in whole      *)
(* seconds: a second ends when every running node has run both loops in    *)
(* it.  One node, fdVictim, can stop; the others run for ever.             *)
(***************************************************************************)
fdVictim == "C"
suspicionTimeout == 3
failureTimeout   == 6
MaxAge  == failureTimeout + 1
MaxBeat == 1

fdRunning(n) == n # fdVictim \/ ~fdStopped
fdPeers(n) == Nodes \ {n}

\* NewGossipService on every node.
FdIdle ==
    /\ fdMembers = [n \in Nodes |->
                      [m \in fdPeers(n) |-> [Status |-> StatusAlive, Heartbeat |-> 0]]]
    /\ fdAge = [n \in Nodes |-> [m \in fdPeers(n) |-> 0]]
    /\ fdBeat = [n \in Nodes |-> 0]
    /\ fdStopped = FALSE
    /\ fdDone = [n \in Nodes |-> [gossiped |-> FALSE, checked |-> FALSE]]
    /\ fdPending = [n \in Nodes |-> {}]
MoreIdle == ConcIdle /\ KvIdle /\ FdIdle
ExtraIdle == MerkleIdle /\ RetryIdle /\ MoreIdle

\* selectGossipTargets(2) on a cluster of three: every member that is not down.
fdTargets(n) == {m \in fdPeers(n) : fdMembers[n][m].Status # StatusDown}

\* The reports HandleGossip at receiver r applies for a payload of sender s:
\* the sender, alive, then every entry of the sender's member table; the
\* entry about r itself is skipped by updateMember.
fdReports(s, r) ==
    {[NodeID |-> s, Status |-> StatusAlive, Heartbeat |-> fdBeat[s]]}
        \cup {[NodeID |-> m, Status |-> fdMembers[s][m].Status,
               Heartbeat |-> fdMembers[s][m].Heartbeat] : m \in fdPeers(s) \ {r}}

\* HandleGossip at r: the member table after updateMember on every report.
\* The reports name different nodes, so their order does not matter.
RECURSIVE fdApply(_, _)
fdApply(m, reports) ==
    IF reports = {} THEN m
    ELSE LET rep == CHOOSE x \in reports : TRUE
         IN  fdApply(updateKnownMember(m, rep), reports \ {rep})

\* updateMember sets current.LastSeen = time.Now() for every known member a
\* report names.
fdRefreshed(r, reports) ==
    [m \in fdPeers(r) |-> IF \E rep \in reports : rep.NodeID = m THEN 0 ELSE fdAge[r][m]]

\* sendGossipToNode at the sender for a target that answered 200.
fdAnswered(n, t) ==
    IF fdMembers[n][t].Status # StatusAlive
    THEN [Status |-> StatusAlive, Heartbeat |-> fdMembers[n][t].Heartbeat]
    ELSE fdMembers[n][t]

\* One turn of gossipLoop at n: sendGossip to the targets, then
\* incrementHeartbeat.  A running target handles the payload and answers.
fdGossip(n) ==
    /\ fdRunning(n)
    /\ ~fdDone[n].gossiped
    /\ LET reached == {t \in fdTargets(n) : fdRunning(t)}
           silent  == fdTargets(n) \ reached
       IN  /\ fdMembers' = [r \in Nodes |->
                              IF r = n
                              THEN [m \in fdPeers(n) |->
                                      IF m \in reached THEN fdAnswered(n, m)
                                      ELSE fdMembers[n][m]]
                              ELSE IF r \in reached
                              THEN fdApply(fdMembers[r], fdReports(n, r))
                              ELSE fdMembers[r]]
           /\ fdAge' = [r \in Nodes |->
                          IF r = n
                          THEN [m \in fdPeers(n) |->
                                  IF m \in reached /\ fdMembers[n][m].Status # StatusAlive
                                  THEN 0 ELSE fdAge[n][m]]
                          ELSE IF r \in reached
                          THEN fdRefreshed(r, fdReports(n, r))
                          ELSE fdAge[r]]
           /\ fdPending' = [fdPending EXCEPT ![n] = @ \cup silent]
    /\ fdBeat' = [fdBeat EXCEPT ![n] = IF @ < MaxBeat THEN @ + 1 ELSE @]
    /\ fdDone' = [fdDone EXCEPT ![n].gossiped = TRUE]
    /\ UNCHANGED <<fdStopped, vcVars, ringVars, cfgVars, dataVars, envVars, opVars,
                   aeVars, gossipVars, merkleVars, retryVars, concVars, kvVars>>

\* sendGossipToNode after five failed attempts: the target is stored as
\* suspected with the LastSeen of the Member the send was started with.  That
\* Member is the stored one, or one a Store has replaced since, which
\* updateMember no longer refreshes: the stored LastSeen stays or gets older.
fdSendFailed(n, t, stale) ==
    /\ fdRunning(n)
    /\ t \in fdPending[n]
    /\ stale \in fdAge[n][t]..MaxAge
    /\ fdMembers' = [fdMembers EXCEPT ![n][t] =
                        [Status |-> StatusSuspected, Heartbeat |-> @.Heartbeat]]
    /\ fdAge' = [fdAge EXCEPT ![n][t] = stale]
    /\ fdPending' = [fdPending EXCEPT ![n] = @ \ {t}]
    /\ UNCHANGED <<fdBeat, fdStopped, fdDone, vcVars, ringVars, cfgVars, dataVars,
                   envVars, opVars, aeVars, gossipVars, merkleVars, retryVars, concVars,
                   kvVars>>

\* The status checkMemberStatuses gives a member last seen age seconds ago.
fdStatusFor(age) ==
    IF age > failureTimeout THEN StatusDown
    ELSE IF age > suspicionTimeout THEN StatusSuspected
    ELSE StatusAlive

\* One turn of failureDetectionLoop at n.
fdCheck(n) ==
    /\ fdRunning(n)
    /\ ~fdDone[n].checked
    /\ fdMembers' = [fdMembers EXCEPT ![n] =
                        [m \in fdPeers(n) |->
                            [Status |-> fdStatusFor(fdAge[n][m]),
                             Heartbeat |-> fdMembers[n][m].Heartbeat]]]
    /\ fdDone' = [fdDone EXCEPT ![n].checked = TRUE]
    /\ UNCHANGED <<fdAge, fdBeat, fdStopped, fdPending, vcVars, ringVars, cfgVars,
                   dataVars, envVars, opVars, aeVars, gossipVars, merkleVars, retryVars,
                   concVars, kvVars>>

\* A second passes: every running node has run both loops in it.
fdTick ==
    /\ \A n \in Nodes : fdRunning(n) => fdDone[n].gossiped /\ fdDone[n].checked
    /\ fdAge' = [n \in Nodes |->
                   [m \in fdPeers(n) |->
                       IF fdRunning(n) /\ fdAge[n][m] < MaxAge
                       THEN fdAge[n][m] + 1 ELSE fdAge[n][m]]]
    /\ fdDone' = [n \in Nodes |-> [gossiped |-> FALSE, checked |-> FALSE]]
    /\ UNCHANGED <<fdMembers, fdBeat, fdStopped, fdPending, vcVars, ringVars, cfgVars,
                   dataVars, envVars, opVars, aeVars, gossipVars, merkleVars, retryVars,
                   concVars, kvVars>>

\* The process of fdVictim ends: it sends no gossip and answers no request.
fdStop ==
    /\ ~fdStopped
    /\ fdStopped' = TRUE
    /\ fdPending' = [fdPending EXCEPT ![fdVictim] = {}]
    /\ UNCHANGED <<fdMembers, fdAge, fdBeat, fdDone, vcVars, ringVars, cfgVars,
                   dataVars, envVars, opVars, aeVars, gossipVars, merkleVars, retryVars,
                   concVars, kvVars>>

vars == <<vcVars, ringVars, cfgVars, clusterVars>>

\* The nodes are interchangeable: the node the ring maps the key to is named A.
InitCluster ==
    /\ primary = [k \in Keys |-> "A"]
    /\ store = [n \in Nodes |-> [k \in Keys |-> NoValue]]
    /\ Hints = [n \in Nodes |-> NoHints]
    /\ pending = [n \in Nodes |-> NoHints]
    /\ fr = [n \in Nodes |-> NoReconnect]
    /\ lostHints = {}
    /\ handed = {}
    /\ evicted = {}
    /\ up = Nodes
    /\ view = [n \in Nodes |-> Nodes]
    /\ nFaults = 0
    /\ nSuspicions = 0
    /\ lastOp = [type |-> "none"]
    /\ acked = {}
    /\ nPuts = 0
    /\ ae = [n \in Nodes |-> AEIdle]
    /\ aeDone = {}
    /\ InitGossip

ClusterIdle == InitCluster

InitVC ==
    /\ vcA \in Clocks /\ vcB \in Clocks /\ vcC \in Clocks
    /\ vcRes = {}
    /\ RingIdle /\ CfgIdle /\ ClusterIdle
    /\ ExtraIdle
NextVC == CompareClocks
SpecVC == InitVC /\ [][NextVC]_vars

(***************************************************************************)
(* SpecWrite: one internal write or one repair write arriving at a node    *)
(* for a key.  vcA is the clock of the entry the node stores (the empty    *)
(* clock stands for "no entry"), vcC the clock of the one sibling a        *)
(* sibling list carries (the empty clock stands for "no sibling"), vcB the *)
(* clock of the request.  Clocks that nodes hand to each other have no     *)
(* zero counter: every entry was made by Increment or copied by Merge.     *)
(***************************************************************************)
MaxStamp  == 2
PutClocks == UNION {[S -> 1..MaxStamp] : S \in SUBSET VCNodes}

siblings(payload, vc) ==
    IF vc = NewVectorClock THEN <<>> ELSE <<[value |-> payload, vc |-> vc]>>

\* The entry Storage.Get finds for the key before the request.
existingEntry ==
    IF vcA = NewVectorClock THEN NoValue
    ELSE [value |-> 1, vc |-> vcA, conflicts |-> siblings(3, vcC)]

WriteFlags == {"none", "is_hint", "force_sync", "force_key"}

\* PUT /internal/kv/{key} with value 2 and clock vcB: the flagged write is
\* stored as it is, the normal one goes through localPut, whose result the
\* handler does not read; both answer 200.
InternalPutHandler(flag) ==
    /\ vcRes = {}
    /\ vcRes' = {[handler |-> "put", flag |-> flag, sent |-> <<>>,
                  entry |-> IF flag = "none"
                            THEN localPut(existingEntry, 2, vcB)
                            ELSE forceStore(2, vcB),
                  status |-> 200]}
    /\ UNCHANGED <<vcA, vcB, vcC, ringVars, cfgVars, clusterVars>>

\* PUT /internal/repair/{key} with value 2, clock vcB and the sibling list
\* of the body: stored as it is.
RepairHandler(conflicts) ==
    /\ vcRes = {}
    /\ vcRes' = {[handler |-> "repair", flag |-> "none", sent |-> conflicts,
                  entry |-> [value |-> 2, vc |-> vcB, conflicts |-> conflicts],
                  status |-> 200]}
    /\ UNCHANGED <<vcA, vcB, vcC, ringVars, cfgVars, clusterVars>>

InitWrite ==
    /\ vcA \in PutClocks /\ vcC \in PutClocks
    /\ vcB \in PutClocks \ {NewVectorClock}
    /\ vcRes = {}
    /\ RingIdle /\ CfgIdle /\ ClusterIdle
    /\ ExtraIdle
NextWrite ==
    \/ \E flag \in WriteFlags : InternalPutHandler(flag)
    \/ \E conflicts \in {<<>>, siblings(4, vcC)} : RepairHandler(conflicts)
SpecWrite == InitWrite /\ [][NextWrite]_vars

InitRing ==
    /\ nodes = {} /\ virtualNodes = <<>> /\ nodeMap = [h \in {} |-> ""]
    /\ lookup = {}
    /\ VCIdle /\ CfgIdle /\ ClusterIdle
    /\ ExtraIdle
NextRing ==
    \/ \E id \in RingIds : AddNode(id)
    \/ \E id \in RingIds : RemoveNode(id)
    \/ \E h \in KeyHashes : GetNode(h)
SpecRing == InitRing /\ [][NextRing]_vars

InitCfg ==
    /\ cfgFile \in [present : BOOLEAN, N : CfgRange, R : CfgRange, W : CfgRange,
                    gossipMs : GossipMsRange]
    /\ flags \in [N : CfgRange, R : CfgRange, W : CfgRange]
    /\ config = NoConfig
    /\ pc = "start"
    /\ VCIdle /\ RingIdle /\ ClusterIdle
    /\ ExtraIdle
NextCfg ==
    \/ LoadConfig
    \/ ApplyOverrides
    \/ NewCoordinator
SpecCfg == InitCfg /\ [][NextCfg]_vars

\* SpecMerkle: the trees a node serves for the bucket numbers of the interface,
\* for every hash its stored key can have.
InitMerkle ==
    /\ keyHash \in [Keys -> HashWords]
    /\ merkleOp = [op |-> "none"]
    /\ VCIdle /\ vcRes = {} /\ RingIdle /\ lookup = {} /\ CfgIdle /\ ClusterIdle
    /\ RetryIdle /\ MoreIdle
NextMerkle == \E bucketNum \in 0..(merkleBuckets - 1) : MerkleTreeHandler(bucketNum)
SpecMerkle == InitMerkle /\ [][NextMerkle]_vars

\* SpecRetry: one request, PUT or GET, at any coordinator, for every set of
\* running peers, every view of the coordinator, every order of the node map
\* and a Replication of 2, of the default 3 or of 4 (more than the ring holds).
InitRetry ==
    /\ primary = [k \in Keys |-> "A"]
    /\ store = [n \in Nodes |-> [k \in Keys |-> NoValue]]
    /\ Hints = [n \in Nodes |-> NoHints]
    /\ pending = [n \in Nodes |-> NoHints]
    /\ fr = [n \in Nodes |-> NoReconnect]
    /\ lostHints = {} /\ handed = {} /\ evicted = {}
    /\ nFaults = 0 /\ nSuspicions = 0
    /\ lastOp = [type |-> "none"] /\ acked = {} /\ nPuts = 0
    /\ ae = [n \in Nodes |-> AEIdle] /\ aeDone = {}
    /\ InitGossip
    /\ VCIdle /\ vcRes = {} /\ RingIdle /\ lookup = {} /\ CfgIdle /\ MerkleIdle /\ MoreIdle
    /\ \E c \in Nodes :
         /\ up \in {u \in SUBSET Nodes : c \in u}
         /\ view \in {v \in [Nodes -> SUBSET Nodes] :
                         /\ c \in v[c]
                         /\ \A n \in Nodes \ {c} : v[n] = Nodes}
         /\ req \in [pc : {"select"}, kind : {"put", "get"}, coord : {c}, key : Keys,
                     allNodes : UNION {getAllNodeIDs(k) : k \in Keys},
                     replication : Replication..(defaultReplication + 1),
                     rounds : {0}, nodes : {<<>>}, attempts : {<<>>}, entry : {<<>>},
                     status : {0}]
NextRetry ==
    \/ getResponsibleNodes
    \/ \E i \in 1..(defaultReplication + 1), answered \in BOOLEAN : attemptEntry(i, answered)
    \/ \E heldLocally \in BOOLEAN : answerRequest(heldLocally)
\* Every goroutine of the request is scheduled and every remote attempt ends.
SpecRetry ==
    /\ InitRetry /\ [][NextRetry]_vars
    /\ WF_vars(getResponsibleNodes)
    /\ \A i \in 1..(defaultReplication + 1) :
          WF_vars(\E answered \in BOOLEAN : attemptEntry(i, answered))
    /\ WF_vars(\E heldLocally \in BOOLEAN : answerRequest(heldLocally))

\* Client requests and failures: every node coordinates PUTs and GETs while
\* nodes crash and are suspected.
Init ==
    /\ InitCluster
    /\ VCIdle /\ vcRes = {} /\ RingIdle /\ lookup = {} /\ CfgIdle
    /\ ExtraIdle
Next ==
    \/ \E c \in Nodes, k \in Keys, o \in NodeOrders : Put(c, k, newValue, o)
    \/ \E c \in Nodes, k \in Keys : Get(c, k)
    \/ \E n \in Nodes : Crash(n)
    \/ \E c, m \in Nodes : checkMemberStatuses(c, m)
Spec == Init /\ [][Next]_vars

\* Client PUTs whose steps interleave, and GETs, on a cluster without failures.
NextConc ==
    \/ \E c \in Nodes, k \in Keys : stampPut(c, k, newValue)
    \/ \E p \in inflight, o \in NodeOrders : finishPut(p, o)
    \/ \E c \in Nodes, k \in Keys : Get(c, k)
SpecConc == Init /\ [][NextConc]_vars

\* PUTs and GETs of two keys at a coordinator whose successor is substituted.
NextGetHint ==
    \/ \E k \in KvKeys, v \in KvValues : kvPut(k, v)
    \/ \E k \in KvKeys, o \in Orders(kvNodes) : kvGet(k, o)
SpecGetHint == Init /\ [][NextGetHint]_vars

\* Gossip and failure detection on every node while one node may stop.  The
\* tickers of gossipLoop and failureDetectionLoop fire for ever on a running
\* node, and an unanswered send ends after its five attempts.
NextDetect ==
    \/ \E n \in Nodes : fdGossip(n)
    \/ \E n, t \in Nodes, stale \in 0..MaxAge : fdSendFailed(n, t, stale)
    \/ \E n \in Nodes : fdCheck(n)
    \/ fdTick
    \/ fdStop
SpecDetect ==
    /\ Init /\ [][NextDetect]_vars
    /\ \A n \in Nodes : WF_vars(fdGossip(n))
    /\ \A n, t \in Nodes : WF_vars(\E stale \in 0..MaxAge : fdSendFailed(n, t, stale))
    /\ \A n \in Nodes : WF_vars(fdCheck(n))
    /\ WF_vars(fdTick)

\* Client writes and anti-entropy on a cluster without failures.
NextAE ==
    \/ \E c \in Nodes, k \in Keys, o \in NodeOrders : Put(c, k, newValue, o)
    \/ \E c \in Nodes : performAntiEntropy(c)
    \/ \E c, m \in Nodes : directSyncWithNode(c, m)
SpecAE == Init /\ [][NextAE]_vars

\* SpecStamps: client PUTs only, MaxWrites of them, every node running.
MaxWrites == 3
NextStamps ==
    \E c \in Nodes, k \in Keys, o \in NodeOrders : PutAt(c, k, newValue, o, MaxWrites)
SpecStamps == Init /\ [][NextStamps]_vars

\* Writes and hinted handoff while nodes crash and restart and members are
\* suspected and seen again.
NextHints ==
    \/ \E c \in Nodes, k \in Keys, o \in NodeOrders : Put(c, k, newValue, o)
    \/ \E n \in Nodes : Crash(n)
    \/ \E n \in Nodes : Restart(n)
    \/ \E c, m \in Nodes : checkMemberStatuses(c, m)
    \/ \E c, m \in Nodes : updateMember(c, m)
    \/ \E c \in Nodes : processHintsCopy(c)
    \/ \E c, t \in Nodes : processHints(c, t)
    \/ \E c, m \in Nodes : forceReconnectHints(c, m)
SpecHints == Init /\ [][NextHints]_vars

\* The same system under the scheduling of the hint worker: its ticker fires
\* every second for as long as the node runs, so a copy or a delivery that
\* stays possible is eventually made, and the goroutine that
\* forceReconnectHints runs in is eventually scheduled.
SpecHandoff ==
    /\ Init /\ [][NextHints]_vars
    /\ WF_vars(\E c \in Nodes : processHintsCopy(c))
    /\ WF_vars(\E c, t \in Nodes : processHints(c, t))
    /\ WF_vars(\E c, m \in Nodes : forceReconnectHints(c, m))

\* The hint lists of one node under stored hints, the hint worker and the
\* reconnection of members: the node is the one the requests are sent to.
hintNode == "A"

NextHintList ==
    \/ \E t \in Nodes \ {hintNode}, k \in Keys :
          StoreHintHandler(hintNode, t, k, newValue, Increment(NewVectorClock, hintNode))
    \/ \E m \in Nodes : checkMemberStatuses(hintNode, m)
    \/ \E m \in Nodes : updateMember(hintNode, m)
    \/ processHintsCopy(hintNode)
    \/ \E t \in Nodes : processHints(hintNode, t)
    \/ \E m \in Nodes : forceReconnectHints(hintNode, m)
SpecHintList == Init /\ [][NextHintList]_vars

\* One node's gossip service under every call made on it.
NextGossip ==
    \/ \E sender \in GossipIds, heartbeat \in Heartbeats, members \in Payloads :
          HandleGossip(sender, heartbeat, members)
    \/ incrementHeartbeat
    \/ gossipCheckMemberStatuses
    \/ \E target \in GossipIds, answered \in BOOLEAN : sendGossipToNode(target, answered)
    \/ \E nodeID \in GossipIds : getNodeStatus(nodeID)
    \/ \E nodeID \in GossipIds : ForceNodeDown(nodeID)
SpecGossip == Init /\ [][NextGossip]_vars

\* The counter of node in a clock; a node without an entry counts as 0.
clockOf(vc, node) == IF node \in DOMAIN vc THEN vc[node] ELSE 0

\* Clock a dominates or equals clock b.
dominatesOrEquals(a, b) == compareVectorClocks(a, b) = "older"

\* The values a GET answer carries: the principal one and the siblings.
valuesOf(result) == {result.value} \cup SeqToSet(result.conflicts)

(***************************************************************************)
(* C1.  With every node alive throughout, after a successful PUT through   *)
(* a coordinator and then a second successful PUT of another value through *)
(* the same coordinator, every GET answers the second value with the       *)
(* coordinator's counter at 2 and without conflicts, whether or not the    *)
(* coordinator is in the key's replica list.  Only the GETs that are       *)
(* answered are judged.                                                    *)
(***************************************************************************)
C1_CausalOverwrite ==
    \A c \in Nodes, k \in Keys :
        (/\ nFaults = 0 /\ nSuspicions = 0
         /\ nPuts = 2
         /\ \E p, q \in acked : /\ p.coord = c /\ q.coord = c
                                /\ p.key = k /\ q.key = k
                                /\ p.value = 1 /\ q.value = 2)
        => \A g \in Nodes : \A out \in GetOutcomes(g, k) :
              out.status = 200 =>
                  /\ out.result.value = 2
                  /\ clockOf(out.result.vc, c) = 2
                  /\ out.result.conflicts = <<>>

(***************************************************************************)
(* C2.  Once the cluster is quiescent, a GET of a key at any node answers  *)
(* a clock that dominates or equals the clock stamped on every successful  *)
(* PUT of that key.  Only the GETs that are answered are judged.           *)
(***************************************************************************)
C2_QuiescentReadDominates ==
    quiescent =>
        \A p \in acked : \A g \in Nodes : \A out \in GetOutcomes(g, p.key) :
            out.status = 200 => dominatesOrEquals(out.result.vc, p.vc)

(***************************************************************************)
(* C3.  After two successful PUTs of different values to one key through   *)
(* distinct coordinators with concurrent clocks, once anti-entropy has run *)
(* a GET at any node answers both values (principal and conflicts) or a    *)
(* value whose clock dominates both clocks.  Only the GETs that are        *)
(* answered are judged.                                                    *)
(***************************************************************************)
C3_ConcurrentPutsKept ==
    quiescent =>
        \A p, q \in acked :
            (/\ p.key = q.key /\ p.coord # q.coord /\ p.value # q.value
             /\ compareVectorClocks(p.vc, q.vc) = "concurrent")
            => \A g \in Nodes : \A out \in GetOutcomes(g, p.key) :
                  out.status = 200 =>
                      \/ {p.value, q.value} \subseteq valuesOf(out.result)
                      \/ /\ dominatesOrEquals(out.result.vc, p.vc)
                         /\ dominatesOrEquals(out.result.vc, q.vc)

(***************************************************************************)
(* C4.  With all nodes alive, once every node has completed an             *)
(* anti-entropy cycle begun after the last client request, every node      *)
(* stores the same principal value for every key.                          *)
(***************************************************************************)
C4_AntiEntropyConverges ==
    (up = Nodes /\ aeDone = Nodes) =>
        \A n, m \in Nodes, k \in Keys : store[n][k].value = store[m][k].value

(***************************************************************************)
(* C5.  A hint leaves a coordinator's buffer only by being delivered to    *)
(* its target or by being evicted from a full buffer, also when a new hint *)
(* for the same key is buffered while an earlier one is being delivered:   *)
(* a hint that processHints or forceReconnectHints took out of the buffer  *)
(* without having sent it (lostHints) left its write, or a newer one, at   *)
(* its target.                                                             *)
(***************************************************************************)
C5_HintsLeaveByDelivery ==
    \A l \in lostHints :
        dominatesOrEquals(store[l.target][l.hint.key].vc, l.hint.vc)

(***************************************************************************)
(* C6.  With at least one node in the node set, GetNode returns the id of  *)
(* a node that is in the set (never "" and never a removed node), after    *)
(* any sequence of AddNode and RemoveNode calls.                           *)
(***************************************************************************)
C6_GetNodeTotal ==
    \A l \in lookup : nodes # {} => l.node \in nodes

C8_ServingQuorumValid ==
    pc = "serving" =>
        /\ config.N > 0 /\ config.R > 0 /\ config.W > 0
        /\ config.R + config.W > config.N

\* A file that passed validation, a flag that breaks the quorum, and the
\* fatal exit that follows.
C8_Witness ==
    /\ pc = "fatal"
    /\ cfgFile.present /\ ValidateConfig(cfgFile)
    /\ config.R + config.W <= config.N
    /\ flags.N > 0

(***************************************************************************)
(* C9.  A client PUT answers success exactly when at least W replicas of   *)
(* the chosen replica list acknowledged the write, and 500 otherwise.      *)
(***************************************************************************)
C9_PutSuccessIffQuorum ==
    lastOp.type = "put" =>
        /\ lastOp.status \in {201, 500}
        /\ lastOp.status = 201 <=> lastOp.replicas >= WriteQuorum

(***************************************************************************)
(* C10.  A GET with fewer than R non-empty responses answers the           *)
(* coordinator's own copy when it holds the key and the read-quorum error  *)
(* (500) when it does not; a reconciled answer rests on at least R         *)
(* non-empty responses.                                                    *)
(***************************************************************************)
C10_ReadQuorumOrLocal ==
    lastOp.type = "get" =>
        /\ lastOp.responses < ReadQuorum =>
             /\ lastOp.held => /\ lastOp.kind = "degraded"
                               /\ lastOp.status = 200
                               /\ lastOp.local
             /\ ~lastOp.held => lastOp.kind = "error" /\ lastOp.status = 500
        /\ lastOp.kind = "quorum" => lastOp.responses >= ReadQuorum

\* A degraded read: a node of the list is down, one response came in, and the
\* coordinator answered from its own copy.
C10_Witness ==
    /\ lastOp.type = "get"
    /\ lastOp.responses = 1
    /\ lastOp.held
    /\ lastOp.kind = "degraded"
    /\ up # Nodes

\* Every node runs and every gossip view holds every node.
allAlive == up = Nodes /\ \A n \in Nodes : view[n] = Nodes

(***************************************************************************)
(* C11.  A client GET of a key that no node holds, in storage or as a      *)
(* hint, with every node alive and answering, is answered 404.             *)
(***************************************************************************)
C11_MissingKeyNotFound ==
    (/\ lastOp.type = "get"
     /\ allAlive
     /\ \A n \in Nodes : Hints[n] = NoHints
     /\ \A n \in Nodes, k \in Keys : ~exists(n, k))
        => lastOp.status = 404

\* The nodes whose copy a GET outcome at coordinator c rests on.
answering(c, out) == IF out.kind = "degraded" THEN {c} ELSE DOMAIN out.responses

(***************************************************************************)
(* C12.  When a node a GET's answer rests on stores the answered version   *)
(* (same value and clock) with siblings, the answer's conflicts list       *)
(* carries the value of every one of these siblings: on a quorum read and  *)
(* on the degraded local read.                                             *)
(***************************************************************************)
C12_ConflictsReturned ==
    \A c \in up, k \in Keys : \A out \in GetOutcomes(c, k) :
        out.status = 200 =>
            \A n \in answering(c, out) :
                (/\ exists(n, k)
                 /\ store[n][k].value = out.result.value
                 /\ store[n][k].vc = out.result.vc)
                    => \A i \in 1..Len(store[n][k].conflicts) :
                          store[n][k].conflicts[i].value
                              \in SeqToSet(out.result.conflicts)

(***************************************************************************)
(* C13.  With every node alive, the first PUT of a key through a           *)
(* coordinator c is answered 201, and a GET of the key through c that      *)
(* follows answers the value with the clock {c: 1} and no conflicts.       *)
(***************************************************************************)
C13_BasicWriteRead ==
    (allAlive /\ nPuts = 1 /\ nFaults = 0 /\ nSuspicions = 0) =>
        /\ acked # {}
        /\ \A p \in acked : \A out \in GetOutcomes(p.coord, p.key) :
              /\ out.status = 200
              /\ out.result = [value |-> p.value,
                                vc |-> [n \in {p.coord} |-> 1],
                                conflicts |-> <<>>]

\* The hint storeHint builds for a client write.
hintOf(op) == [key |-> op.key, value |-> op.value, vc |-> op.vc]

\* The PUT recorded in op went to a list in which exactly one preferred node,
\* not alive in the coordinator's view, was replaced by a node that is, and
\* every node of the list runs.
sloppyWrite(op) ==
    /\ op.type = "put"
    /\ Cardinality(op.replacements) = 1
    /\ \A n \in SeqToSet(op.nodes) : n \in up /\ isNodeAvailable(op.coord, n)
    /\ Cardinality(SeqToSet(op.nodes)) = Len(op.nodes)

(***************************************************************************)
(* C14.  A PUT of a key whose list has exactly one preferred replica       *)
(* not alive in the coordinator's view, replaced by a healthy node outside *)
(* the list, is answered 201, leaves at the coordinator a hint for the     *)
(* replaced node with the PUT's key, value and clock, and a GET through    *)
(* the coordinator that follows answers the written value.                 *)
(***************************************************************************)
C14_SloppyWrite ==
    [][(nPuts' = nPuts + 1 /\ sloppyWrite(lastOp'))
        => /\ lastOp'.status = 201
           /\ \A r \in lastOp'.replacements :
                 /\ r[1] \notin SeqToSet(lastOp'.nodes)
                 /\ r[2] \in SeqToSet(lastOp'.nodes)
                 /\ \E i \in 1..Len(Hints'[lastOp'.coord][r[1]]) :
                       Hints'[lastOp'.coord][r[1]][i] = hintOf(lastOp')
           /\ \A c \in Nodes, k \in Keys :
                 (c = lastOp'.coord /\ k = lastOp'.key)
                    => \A out \in GetOutcomes(c, k)' :
                          out.status = 200 /\ out.result.value = lastOp'.value]_vars

\* Coordinator c holds a hint for t carrying value v.
hintHeld(c, t, v) == \E i \in 1..Len(Hints[c][t]) : Hints[c][t][i].value = v

\* The coordinator that stamped value v: only an acknowledged PUT stores hints,
\* and every PUT carries its own value.
coordinatorOf(v) == {p.coord : p \in {q \in acked : q.value = v}}

\* The coordinator runs, the target runs and the coordinator's gossip reports
\* the target alive.
handoffStable(c, t) == c \in up /\ t \in up /\ isNodeAvailable(c, t)

\* The target stores the hinted value, or stored it on delivery before a later
\* write replaced it, and the coordinator's buffer no longer holds the hint.
handedOff(c, t, v) ==
    /\ ~hintHeld(c, t, v)
    /\ <<t, v>> \in handed \/ \E k \in Keys : store[t][k].value = v

C16_OwnCounterIncreases ==
    \A p, q \in acked :
        (p.coord = q.coord /\ p.key = q.key /\ p.value < q.value)
            => clockOf(p.vc, p.coord) < clockOf(q.vc, q.coord)

\* Clock a holds, for every node, at least the counter clock b holds.
covers(a, b) == \A n \in Nodes : clockOf(a, n) >= clockOf(b, n)

(***************************************************************************)
(* C17.  Every reconciled (non-degraded) GET result was built from the     *)
(* non-empty responses of at least R distinct nodes, and its clock         *)
(* dominates or equals the clock of every one of those responses, in every *)
(* order the responses can be reduced in.                                  *)
(***************************************************************************)
C17_ResultCoversResponses ==
    \A c \in up, k \in Keys : \A out \in GetOutcomes(c, k) :
        out.kind = "quorum" =>
            /\ Cardinality(DOMAIN out.responses) >= ReadQuorum
            /\ \A n \in DOMAIN out.responses :
                  /\ out.responses[n].value # nil
                  /\ covers(out.result.vc, out.responses[n].vc)

\* A running coordinator can reconcile two responses whose clocks are
\* concurrent, and the last request was a reconciled GET.
C17_Witness ==
    /\ lastOp.type = "get" /\ lastOp.kind = "quorum"
    /\ \E c \in up, k \in Keys : \E out \in GetOutcomes(c, k) :
          /\ out.kind = "quorum"
          /\ \E n, m \in DOMAIN out.responses :
                compareVectorClocks(out.responses[n].vc, out.responses[m].vc) = "concurrent"

(***************************************************************************)
(* C18.  Every hint list holds at most the limit of entries and is ordered *)
(* by enqueue time, oldest first (the stored hints are numbered in the     *)
(* order they were enqueued), under every interleaving of storeHint with   *)
(* the removals of processHints and forceReconnectHints.                   *)
(***************************************************************************)
C18_HintListFifo ==
    \A c, t \in Nodes :
        /\ Len(Hints[c][t]) <= listLimit
        /\ \A i, j \in 1..Len(Hints[c][t]) :
              i < j => Hints[c][t][i].value < Hints[c][t][j].value

(***************************************************************************)
(* C19.  A node's status for itself is always alive: its own Member is     *)
(* alive, its member list holds no other status for it, and getNodeStatus  *)
(* of its own id answers alive, whatever gossip it receives, whatever the  *)
(* failure detector finds, whichever outgoing gossip fails and whichever   *)
(* node ForceNodeDown is called for.                                       *)
(***************************************************************************)
C19_SelfAlwaysAlive ==
    /\ Self.Status = StatusAlive
    /\ Self.NodeID \in DOMAIN Members => Members[Self.NodeID].Status = StatusAlive
    /\ (gossipOp.op = "getNodeStatus" /\ gossipOp.node = Self.NodeID)
          => gossipOp.status = StatusAlive

\* The node received gossip that reports the node itself as down while it
\* holds another member as down.
C19_Witness ==
    /\ gossipOp.op = "HandleGossip"
    /\ StatusDown \in gossipOp.selfReported
    /\ \E n \in DOMAIN Members : Members[n].Status = StatusDown

(***************************************************************************)
(* C20.  No step deletes a key: a node whose store holds a value for a key *)
(* holds a value for it after every client PUT, replicated write, hint     *)
(* delivery and forced push, and after a crash and restart.                *)
(***************************************************************************)
C20_NeverDeleted ==
    [][\A n \in Nodes, k \in Keys : exists(n, k) => exists(n, k)']_vars

\* A node stored the first write as a delivered hint and holds a later write
\* now: its entry was replaced, not removed.
C20_Witness ==
    \E t \in Nodes, k \in Keys :
        /\ <<t, 1>> \in handed
        /\ exists(t, k) /\ store[t][k].value > 1

\* The entries of the sorted virtual-node array that map to id.
ownedEntries(id) ==
    Cardinality({i \in 1..Len(virtualNodes) : nodeMapGet(nodeMap, virtualNodes[i]) = id})

(***************************************************************************)
(* C21.  After any sequence of AddNode and RemoveNode calls every id in    *)
(* the ring's node set owns exactly virtualNodeCount entries of the        *)
(* virtual-node array and every other id owns none; AddNode of an id       *)
(* already present leaves the ring as it was.                              *)
(***************************************************************************)
C21_TokensPerNode ==
    \A id \in RingIds :
        ownedEntries(id) = IF id \in nodes THEN virtualNodeCount ELSE 0

(***************************************************************************)
(* C22.  With all nodes alive, when a node completes an anti-entropy       *)
(* cycle, every key its store held when the cycle began is in the store of *)
(* every other node.                                                       *)
(***************************************************************************)
C22_KeysPropagate ==
    [][\A c \in Nodes :
          (ae[c].active /\ ~ae'[c].active /\ up' = Nodes)
              => \A k \in ae[c].held : \A n \in Nodes : exists(n, k)']_vars

\* A node completed a cycle after the only PUT, which reached two of the
\* three nodes, and every node holds the key.
C22_Witness ==
    /\ nPuts = 1 /\ aeDone # {} /\ up = Nodes
    /\ \A n \in Nodes, k \in Keys : exists(n, k)


(***************************************************************************)
(* C23.  A normal write whose clock is concurrent to the stored one leaves *)
(* the incoming value as principal, the previous sibling list followed by  *)
(* the previous principal as siblings, and the component-wise maximum of   *)
(* the two clocks as clock.                                                *)
(***************************************************************************)
concurrentClocks(a, b) ==
    /\ \E n \in VCNodes : clockOf(a, n) > clockOf(b, n)
    /\ \E n \in VCNodes : clockOf(b, n) > clockOf(a, n)

maxOf(i, j) == IF i >= j THEN i ELSE j

isMaxClock(vc, a, b) ==
    /\ DOMAIN vc = DOMAIN a \cup DOMAIN b
    /\ \A n \in VCNodes : clockOf(vc, n) = maxOf(clockOf(a, n), clockOf(b, n))

normalWrite(r) == r.handler = "put" /\ r.flag = "none" /\ vcA # NewVectorClock

C23_ConcurrentWrite ==
    \A r \in vcRes :
        (normalWrite(r) /\ concurrentClocks(vcA, vcB))
            => /\ r.entry.value = 2
               /\ r.entry.conflicts
                      = Append(siblings(3, vcC), [value |-> 1, vc |-> vcA])
               /\ isMaxClock(r.entry.vc, vcA, vcB)

C23_Witness ==
    \E r \in vcRes :
        /\ normalWrite(r) /\ concurrentClocks(vcA, vcB)
        /\ Len(r.entry.conflicts) = 2
        /\ \E n \in VCNodes : clockOf(vcA, n) > 0 /\ clockOf(vcB, n) > clockOf(vcA, n)

(***************************************************************************)
(* C24.  A normal write with clock c against a stored clock s: when s      *)
(* strictly dominates c the entry stays as it is and the write is answered *)
(* as a success; when c strictly dominates s the entry becomes the         *)
(* incoming value with clock c and no siblings.  Either way the stored     *)
(* clock afterwards is the component-wise maximum of s and c.              *)
(***************************************************************************)
strictlyDominates(a, b) ==
    /\ \A n \in VCNodes : clockOf(a, n) >= clockOf(b, n)
    /\ \E n \in VCNodes : clockOf(a, n) > clockOf(b, n)

C24_OrderedWrite ==
    \A r \in vcRes :
        normalWrite(r)
            => /\ strictlyDominates(vcA, vcB)
                   => r.entry = existingEntry /\ r.status = 200
               /\ strictlyDominates(vcB, vcA)
                   => r.entry = [value |-> 2, vc |-> vcB, conflicts |-> <<>>]
               /\ (strictlyDominates(vcA, vcB) \/ strictlyDominates(vcB, vcA))
                   => isMaxClock(r.entry.vc, vcA, vcB)

C24_Witness ==
    \E r \in vcRes :
        /\ normalWrite(r) /\ strictlyDominates(vcB, vcA)
        /\ vcC # NewVectorClock /\ DOMAIN vcB # DOMAIN vcA


(***************************************************************************)
(* C30.  A write flagged is_hint, force_sync or force_key, and a repair    *)
(* write, replace the stored entry whatever the two clocks are: the stored *)
(* value and clock are the incoming ones, with the sibling list of the     *)
(* request for a repair and no sibling for a flagged write.                *)
(***************************************************************************)
unconditionalWrite(r) == r.handler = "repair" \/ r.flag # "none"

C30_UnconditionalWrite ==
    \A r \in vcRes :
        unconditionalWrite(r)
            => /\ r.entry.value = 2
               /\ r.entry.vc = vcB
               /\ r.entry.conflicts
                      = (IF r.handler = "repair" THEN r.sent ELSE <<>>)

C30_Witness ==
    \E r \in vcRes :
        /\ r.flag = "is_hint"
        /\ strictlyDominates(vcA, vcB)
        /\ existingEntry.conflicts # <<>>
        /\ r.entry # existingEntry


(***************************************************************************)
(* C25.  Two PUTs of one key at distinct coordinators, neither of which    *)
(* had received the other PUT's write when it stamped its own, carry       *)
(* concurrent clocks.  The later PUT is the one with the larger payload.   *)
(* Its coordinator had received the earlier write when it is one of the    *)
(* nodes that write was sent to and answered by, or when it had received   *)
(* the write of a PUT whose coordinator had (a chain of any length).       *)
(***************************************************************************)
\* The coordinator of q was handed the write of p before it stamped q.
handedTo(p, q) == p.key = q.key /\ p.value < q.value /\ q.coord \in p.nodes

RECURSIVE reached(_, _)
reached(p, q) ==
    \/ handedTo(p, q)
    \/ \E r \in acked : handedTo(p, r) /\ r.value < q.value /\ reached(r, q)

independentPuts(p, q) ==
    /\ p.key = q.key /\ p.coord # q.coord
    /\ p.value < q.value
    /\ ~reached(p, q)

C25_IndependentPutsConcurrent ==
    \A p, q \in acked : independentPuts(p, q) => concurrentClocks(p.vc, q.vc)


(***************************************************************************)
(* C26.  With the ring membership and the liveness views fixed, every call *)
(* of the replica selection for a key returns the same list.  In           *)
(* SpecStamps every node runs and every view holds every node at all       *)
(* times, so the nodes that took an earlier PUT's write are the list       *)
(* computed for that PUT; it is compared with the list of the last PUT.    *)
(***************************************************************************)
C26_DeterministicList ==
    \A p \in acked :
        (lastOp.type = "put" /\ lastOp.key = p.key /\ view = [n \in Nodes |-> Nodes])
            => p.nodes = SeqToSet(lastOp.nodes)


(***************************************************************************)
(* C27.  The replica list chosen for a PUT never holds the same node       *)
(* twice, whatever the coordinator's liveness view is, so a PUT that is    *)
(* answered as stored was acknowledged by W distinct nodes.                *)
(***************************************************************************)
distinctNodes(nodeSeq) ==
    \A i, j \in 1..Len(nodeSeq) : nodeSeq[i] = nodeSeq[j] => i = j

C27_DistinctReplicas ==
    lastOp.type = "put"
        => /\ distinctNodes(lastOp.nodes)
           /\ lastOp.status = 201 => lastOp.replicas >= WriteQuorum


(***************************************************************************)
(* C28.  A PUT enqueues a hint toward an original replica exactly when the *)
(* PUT met the write quorum and the substitute chosen for that original    *)
(* acknowledged the write; a PUT answered with the insufficient-replicas   *)
(* error leaves every hint buffer as it was.  No PUT touches the hints of  *)
(* another coordinator.  Every PUT carries its own payload, so the hint of *)
(* a PUT is the one holding that payload.                                  *)
(***************************************************************************)
enqueued(h, t, op) ==
    /\ h[t] # <<>>
    /\ h[t][Len(h[t])] = [key |-> op.key, value |-> op.value, vc |-> op.vc]

substituteAcked(op, t) ==
    \E r \in op.replacements :
        r[1] = t /\ (r[2] = op.coord \/ r[2] \in up)

tickSnapshot(c) == pending[c] = NoHints /\ pending'[c] # NoHints

tickDelivery(c, t) == up' = up /\ pending[c][t] # <<>> /\ pending'[c][t] = <<>>

C29_OnlyAliveTargets ==
    [][\A c \in Nodes :
          /\ tickSnapshot(c)
                => /\ \A t \in Nodes :
                         pending'[c][t] = IF t \in view[c] THEN Hints[c][t] ELSE <<>>
                   /\ Hints' = Hints /\ store' = store
          /\ \A t \in Nodes :
                tickDelivery(c, t)
                    => \A u \in Nodes \ {t} :
                          /\ Hints'[c][u] = Hints[c][u]
                          /\ store'[u] = store[u]
                          /\ pending'[c][u] = pending[c][u]]_vars

C29_Witness ==
    \E c \in Nodes, t \in Nodes, u \in Nodes :
        /\ pending[c][t] # <<>>
        /\ u \notin view[c] /\ Hints[c][u] # <<>> /\ pending[c][u] = <<>>


(***************************************************************************)
(* C31.  A GET repairs only the replicas that answered nothing or a        *)
(* strictly older version: a stored entry that a GET changes was empty or  *)
(* had a clock strictly dominated by the clock of the reconciled entry     *)
(* written over it.  A step that changes storage without a PUT, a crash or *)
(* a change of view is a GET.                                              *)
(***************************************************************************)
getStep == nPuts' = nPuts /\ up' = up /\ view' = view /\ lastOp'.type = "get"

C31_RepairOnlyStale ==
    [][getStep
          => \A n \in Nodes, k \in Keys :
                store'[n][k] # store[n][k]
                    => \/ store[n][k].value = nil
                       \/ strictlyDominates(store'[n][k].vc, store[n][k].vc)]_vars


(***************************************************************************)
(* C32.  Right after a node has processed a gossip message sent by another *)
(* node, it holds the sender as alive, whatever status and heartbeat it    *)
(* held for the sender before.  Messages whose member entries name the     *)
(* sender itself are left aside.                                           *)
(***************************************************************************)
C32_SenderAlive ==
    (/\ gossipOp.op = "HandleGossip"
     /\ gossipOp.sender # Self.NodeID
     /\ gossipOp.sender \notin gossipOp.named)
        => /\ gossipOp.sender \in DOMAIN Members
           /\ Members[gossipOp.sender].Status = StatusAlive


(***************************************************************************)
(* C33.  The Merkle buckets partition the keys: the tree served for bucket *)
(* b, for b in 0..99, holds a stored key exactly when b is the key's       *)
(* unsigned hash modulo 100, so every key is in the tree of exactly one    *)
(* bucket, also when the top bit of its hash is set.                       *)
(***************************************************************************)
C33_BucketPartition ==
    merkleOp.op = "merkle"
        => \A k \in Keys :
              k \in merkleOp.keys <=> merkleOp.bucket = keyHash[k] % merkleBuckets


(***************************************************************************)
(* C34.  Every client PUT and GET ends with a success or an error after a  *)
(* bounded number of remote attempts, whatever peers are unreachable: the  *)
(* request reaches its answer, after at most maxRetryAttempts rounds of    *)
(* replica selection and at most maxRetryAttempts remote attempts for each *)
(* entry of the replica list.                                              *)
(***************************************************************************)
RECURSIVE attemptsFrom(_, _)
attemptsFrom(n, i) ==
    IF i > Len(req.nodes) THEN 0
    ELSE (IF req.nodes[i] = n THEN req.attempts[i] ELSE 0) + attemptsFrom(n, i + 1)

\* The remote attempts the request has made toward node n.
attemptsAt(n) == IF req.pc \in {"none", "select"} THEN 0 ELSE attemptsFrom(n, 1)

boundedPerEntry ==
    req.pc # "none"
        => /\ req.rounds <= maxRetryAttempts
           /\ \A i \in 1..Len(req.attempts) : req.attempts[i] <= maxRetryAttempts

C35_PrincipalCoversSiblings ==
    \A n \in Nodes, k \in Keys :
        \A i \in 1..Len(store[n][k].conflicts) :
            covers(store[n][k].vc, store[n][k].conflicts[i].vc)

\* A GET has run while a node holds an entry with a sibling whose clock is
\* not the principal's.
C35_Witness ==
    /\ lastOp.type = "get" /\ lastOp.kind = "quorum"
    /\ \E n \in Nodes, k \in Keys :
          /\ store[n][k].conflicts # <<>>
          /\ store[n][k].conflicts[1].vc # store[n][k].vc


(***************************************************************************)
(* C36.  Two PUTs of one key that run concurrently at one coordinator are  *)
(* stamped with different clocks, and neither write is discarded as        *)
(* carrying a clock equal to the stored one.                               *)
(***************************************************************************)
C36_DistinctStamps ==
    /\ \A p, q \in inflight :
          (p # q /\ p.coord = q.coord /\ p.key = q.key) => p.vc # q.vc
    /\ \A p \in inflight :
          store[p.coord][p.key].value # nil => store[p.coord][p.key].vc # p.vc


(***************************************************************************)
(* C37.  On every node and for every key the stored clock never regresses: *)
(* no step replaces a stored entry by an entry whose clock is strictly     *)
(* dominated by the clock stored before.                                   *)
(***************************************************************************)
C37_NoRegression ==
    [][\A n \in Nodes, k \in Keys :
          store[n][k].value # nil
              => ~strictlyDominates(store[n][k].vc, store'[n][k].vc)]_vars


(***************************************************************************)
(* C38.  A clock identifies one version: any two stored entries of one key *)
(* whose clocks are equal hold the same principal value.                   *)
(***************************************************************************)
C38_ClockIdentifiesVersion ==
    \A n, m \in Nodes, k \in Keys :
        (/\ store[n][k].value # nil /\ store[m][k].value # nil
         /\ store[n][k].vc = store[m][k].vc)
            => store[n][k].value = store[m][k].value


(***************************************************************************)
(* C39.  Every hint in a coordinator's buffer carries a key with a value   *)
(* and clock written to that key, and a hint created while serving a GET   *)
(* of key k through a substitute is stored under k.                        *)
(***************************************************************************)
C39_HintUnderItsKey ==
    /\ \A i \in 1..Len(kvHints) :
          <<kvHints[i].key, kvHints[i].value, kvHints[i].vc>> \in kvWritten
    /\ (getOp.op = "get" /\ getOp.hinted) => getOp.hintKey = getOp.key


\* The running nodes' records of the node that can stop.
victimDown == \A n \in Nodes \ {fdVictim} : fdMembers[n][fdVictim].Status = StatusDown
victimNotAlive == \A n \in Nodes \ {fdVictim} : fdMembers[n][fdVictim].Status # StatusAlive

(***************************************************************************)
(* C40.  Failure detection is live: once a node has stopped while the two  *)
(* others keep gossiping their member tables to each other, every running  *)
(* node eventually records it as down and never as alive again.            *)
(***************************************************************************)
C40_FailureDetectionLive == fdStopped ~> (victimDown /\ []victimNotAlive)

=============================================================================
